---- MODULE Spec2Model ----
(***************************************************************************)
(* Model of the payment gateway of lnd-rpc-js: POST /payment (server.js),  *)
(* PaymentProcessor.processPayment with its file handling                  *)
(* (payment-processor.js), WebhookManager.sendWebhook (webhook-manager.js) *)
(* and the destination checks of LightningRPC (rpc/lightning-rpc.js).      *)
(*                                                                         *)
(* JavaScript strings that the code inspects character by character        *)
(* (destinationWallet, network) are tuples of one-character strings.       *)
(* Amounts are JavaScript numbers with one decimal digit, kept as an       *)
(* integer count of tenths (12.7 is 127).                                  *)
(***************************************************************************)
EXTENDS Integers, Sequences, FiniteSets, TLC

VARIABLES
    config,            \* config.webhooks
    now,               \* Date.now(), in milliseconds
    pc,                \* per request: where its handler is suspended
    body,              \* per request: req.body as submitted to POST /payment
    req,               \* per request: the paymentRequest object in memory
    caught,            \* per request: the error bound in processPayment's catch
    wh,                \* per request: the running sendWebhook call
    hooks,             \* per request: finished sendWebhook calls, in order
    log,               \* per request: the observable events, in order
    settleCalls,       \* per request: backend sendPayment calls, in order
    outcome,           \* per request: what processPayment returned or threw
    response,          \* per request: the HTTP response of POST /payment
    payment_req,       \* directory payment_req: file name -> content
    payment_sent,      \* directory payment_sent: file name -> content
    webhook_failures,  \* directory webhook_failures: file name -> content
    reprocess,         \* per request: the running reprocessFailedWebhooks call
    classified,        \* the address handed to detectAddressType and the tag returned
    listing,           \* per listing endpoint: the HTTP response of GET /pending, GET /sent
    allBalances        \* the running getAllBalances call: its three fetches and its result

vars == <<config, now, pc, body, req, caught, wh, hooks, log, settleCalls, outcome,
          response, payment_req, payment_sent, webhook_failures, reprocess, classified,
          listing, allBalances>>

\* JavaScript null / undefined
NULL == "null"

----
\* ------------------------------------------------------------ strings

UpperSeq == <<"A","B","C","D","E","F","G","H","I","J","K","L","M",
              "N","O","P","Q","R","S","T","U","V","W","X","Y","Z">>
LowerSeq == <<"a","b","c","d","e","f","g","h","i","j","k","l","m",
              "n","o","p","q","r","s","t","u","v","w","x","y","z">>
DigitSeq == <<"0","1","2","3","4","5","6","7","8","9">>

Range(s) == {s[i] : i \in 1..Len(s)}

\* String.prototype.toLowerCase on one character
ToLowerChar(c) ==
    IF \E i \in 1..Len(UpperSeq) : UpperSeq[i] = c
    THEN LowerSeq[CHOOSE i \in 1..Len(UpperSeq) : UpperSeq[i] = c]
    ELSE c

toLowerCase(s) == [i \in 1..Len(s) |-> ToLowerChar(s[i])]

startsWith(s, p) == Len(s) >= Len(p) /\ SubSeq(s, 1, Len(p)) = p

\* String.prototype.includes for a one-character needle
includes(s, c) == \E i \in 1..Len(s) : s[i] = c

\* s.split(c).length
splitLength(s, c) == Cardinality({i \in 1..Len(s) : s[i] = c}) + 1

\* the two parts of s.split(c) when s holds c exactly once
splitFirst(s, c) == SubSeq(s, 1, (CHOOSE i \in 1..Len(s) : s[i] = c) - 1)
splitSecond(s, c) == SubSeq(s, (CHOOSE i \in 1..Len(s) : s[i] = c) + 1, Len(s))

\* /^<prefix>[<class>]{lo,hi}$/
matchRun(s, prefix, class, lo, hi) ==
    /\ startsWith(s, prefix)
    /\ (Len(s) - Len(prefix)) \in lo..hi
    /\ \A i \in (Len(prefix) + 1)..Len(s) : s[i] \in class

\* /^[<first>][<class>]{lo,hi}$/
matchFirstRun(s, first, class, lo, hi) ==
    /\ Len(s) >= 1
    /\ s[1] \in first
    /\ (Len(s) - 1) \in lo..hi
    /\ \A i \in 2..Len(s) : s[i] \in class

\* [a-km-zA-HJ-NP-Z1-9]
Base58Class == (Range(LowerSeq) \ {"l"}) \cup (Range(UpperSeq) \ {"I", "O"})
               \cup (Range(DigitSeq) \ {"0"})
\* [a-zA-HJ-NP-Z0-9]
Bech32Class == Range(LowerSeq) \cup (Range(UpperSeq) \ {"I", "O"}) \cup Range(DigitSeq)
\* [2-9A-HJ-NP-Z]
LiquidFirstClass == (Range(DigitSeq) \ {"0", "1"}) \cup (Range(UpperSeq) \ {"I", "O"})

\* faulty variant of detectAddressType, for sensitivity runs: the invoice prefix is compared as written
detectAddressType_CaseSensitive(address) ==
    IF startsWith(address, <<"l", "n">>) THEN "lightning"
    ELSE IF /\ includes(address, "@")
            /\ splitLength(address, "@") = 2
            /\ splitFirst(address, "@") # <<>>
            /\ splitSecond(address, "@") # <<>>
            /\ includes(splitSecond(address, "@"), ".")
         THEN "lightning"
    ELSE IF \/ matchFirstRun(address, {"1", "3"}, Base58Class, 25, 34)
            \/ matchRun(address, <<"b", "c", "1">>, Bech32Class, 39, 59)
         THEN "bitcoin"
    ELSE IF \/ matchFirstRun(address, LiquidFirstClass, Base58Class, 25, 39)
            \/ matchRun(address, <<"l", "q", "1">>, Bech32Class, 39, 59)
         THEN "liquid"
    ELSE "unknown"

\* faulty variant of detectAddressType, for sensitivity runs: the domain needs no '.'
detectAddressType_NoDotCheck(address) ==
    IF startsWith(toLowerCase(address), <<"l", "n">>) THEN "lightning"
    ELSE IF /\ includes(address, "@")
            /\ splitLength(address, "@") = 2
            /\ splitFirst(address, "@") # <<>>
            /\ splitSecond(address, "@") # <<>>
         THEN "lightning"
    ELSE IF \/ matchFirstRun(address, {"1", "3"}, Base58Class, 25, 34)
            \/ matchRun(address, <<"b", "c", "1">>, Bech32Class, 39, 59)
         THEN "bitcoin"
    ELSE IF \/ matchFirstRun(address, LiquidFirstClass, Base58Class, 25, 39)
            \/ matchRun(address, <<"l", "q", "1">>, Bech32Class, 39, 59)
         THEN "liquid"
    ELSE "unknown"

\* faulty variant of detectAddressType, for sensitivity runs: the Liquid patterns are tried first
detectAddressType_LiquidFirst(address) ==
    IF startsWith(toLowerCase(address), <<"l", "n">>) THEN "lightning"
    ELSE IF /\ includes(address, "@")
            /\ splitLength(address, "@") = 2
            /\ splitFirst(address, "@") # <<>>
            /\ splitSecond(address, "@") # <<>>
            /\ includes(splitSecond(address, "@"), ".")
         THEN "lightning"
    ELSE IF \/ matchFirstRun(address, LiquidFirstClass, Base58Class, 25, 39)
            \/ matchRun(address, <<"l", "q", "1">>, Bech32Class, 39, 59)
         THEN "liquid"
    ELSE IF \/ matchFirstRun(address, {"1", "3"}, Base58Class, 25, 34)
            \/ matchRun(address, <<"b", "c", "1">>, Bech32Class, 39, 59)
         THEN "bitcoin"
    ELSE "unknown"

\* PaymentProcessor.detectAddressType
detectAddressType(address) ==
    IF startsWith(toLowerCase(address), <<"l", "n">>) THEN "lightning"
    ELSE IF /\ includes(address, "@")
            /\ splitLength(address, "@") = 2
            /\ splitFirst(address, "@") # <<>>
            /\ splitSecond(address, "@") # <<>>
            /\ includes(splitSecond(address, "@"), ".")
         THEN "lightning"
    ELSE IF \/ matchFirstRun(address, {"1", "3"}, Base58Class, 25, 34)
            \/ matchRun(address, <<"b", "c", "1">>, Bech32Class, 39, 59)
            \/ matchFirstRun(address, {"3"}, Base58Class, 25, 34)
         THEN "bitcoin"
    ELSE IF \/ matchFirstRun(address, LiquidFirstClass, Base58Class, 25, 39)
            \/ matchRun(address, <<"l", "q", "1">>, Bech32Class, 39, 59)
         THEN "liquid"
    ELSE "unknown"

\* LightningRPC.isLightningDestination
isLightningDestination(destination) ==
    IF startsWith(toLowerCase(destination), <<"l", "n">>) THEN TRUE
    ELSE IF includes(destination, "@") /\ ~includes(destination, ".") THEN TRUE
    ELSE FALSE

----
\* ------------------------------------------------------- configuration

\* config.webhooks.retryAttempts
RetryAttempts == 3

\* config.webhooks.retryDelay, in milliseconds
RetryDelay == 5000

\* largest value of the clock that passes on its own
MaxClock == 1

Reqs == {"r1", "r2"}

\* an optional value: <<>> is undefined, <<v>> is v
None == <<>>
Some(v) == <<v>>

BITCOIN == <<"b","i","t","c","o","i","n">>
LIGHTNING == <<"l","i","g","h","t","n","i","n","g">>
LIQUID == <<"l","i","q","u","i","d">>

Rep(c, n) == [i \in 1..n |-> c]

\* sample destinations: a bolt11 invoice, a Lightning address, a legacy
\* Bitcoin address and a Liquid bech32 address
LnInvoice == <<"l","n","b","c","1","m">>
LnAddress == <<"a","@","b",".","c">>
BtcAddress == <<"1">> \o Rep("A", 25)
LqAddress == <<"l","q","1">> \o Rep("q", 39)

\* webhook URLs as <<scheme with colon, rest>>; <<>> is none
HttpsUrl == <<"https:", "//hook.example/cb">>
FtpUrl == <<"ftp:", "//hook.example/cb">>

\* WebhookManager.validateWebhookUrl
validateWebhookUrl(url) == Len(url) = 2 /\ url[1] \in {"http:", "https:"}

\* parseInt of a number given in tenths: the digits before the decimal point
parseInt(tenths) == IF tenths >= 0 THEN tenths \div 10 ELSE -((-tenths) \div 10)

\* the statuses a webhook receiver answers with; 0 is no answer (timeout, connection error)
HttpAnswers == {200, 500, 0}

\* faulty variant of validateStatus, for sensitivity runs: redirects count as delivered
validateStatus_Lenient(status) == status >= 200 /\ status < 400

\* axios validateStatus of sendWebhook
validateStatus(status) == status >= 200 /\ status < 300

\* error.message of a failed axios.post
AxiosError(status) ==
    IF status = 0 THEN "timeout exceeded" ELSE "Request failed with status code"

\* what a backend's sendPayment resolves to
SettleResults == {[transactionHash |-> "txhash", fee |-> f] : f \in {0, 3}}

\* result.fee || 0
orZero(x) == IF x = 0 THEN 0 ELSE x

SettleError == "settlement failed"
WriteSentError == "ENOSPC: payment_sent"
WriteErrorFileError == "ENOSPC: payment_req ERROR_"
WriteReqError == "ENOSPC: payment_req"
UnlinkError == "EPERM: payment_req"

UnsupportedNetworkError == "Rede nao suportada"

\* a JSON value of req.body that is not a string: a number, an array, an object
NonString == <<"#number">>

\* the message of the TypeError thrown by network.toLowerCase() on such a value
ToLowerCaseError == "network.toLowerCase is not a function"

\* req.body of POST /payment without webhook: every sample network, spelling
\* and destination
RoutingBodies ==
    {[transactionId |-> "t1", username |-> "alice", amount |-> a, network |-> n,
      destinationWallet |-> d, webhookUrl |-> None, webhookSecret |-> NULL] :
        a \in {10000, 127},
        n \in {BITCOIN, LIGHTNING, LIQUID, <<"B">> \o Tail(BITCOIN), <<"L","I","Q","U","I","D">>},
        d \in {LnInvoice, LnAddress, BtcAddress, LqAddress}}

\* req.body of POST /payment with a webhook, signed or not
HookBodies ==
    {[transactionId |-> "t1", username |-> "alice", amount |-> 10000, network |-> nd[1],
      destinationWallet |-> nd[2], webhookUrl |-> HttpsUrl, webhookSecret |-> k] :
        nd \in {<<BITCOIN, BtcAddress>>, <<LIGHTNING, LnAddress>>, <<LIQUID, LqAddress>>},
        k \in {NULL, "s3cret"}}

ValidBodies == RoutingBodies \cup HookBodies

DefaultBody ==
    [transactionId |-> "t1", username |-> "alice", amount |-> 10000, network |-> BITCOIN,
     destinationWallet |-> BtcAddress, webhookUrl |-> HttpsUrl, webhookSecret |-> NULL]

InvalidBodies ==
    { [DefaultBody EXCEPT !.transactionId = NULL],
      [DefaultBody EXCEPT !.username = NULL],
      [DefaultBody EXCEPT !.amount = 0],
      [DefaultBody EXCEPT !.network = <<>>],
      [DefaultBody EXCEPT !.destinationWallet = <<>>],
      [DefaultBody EXCEPT !.network = <<"d","o","g","e">>],
      [DefaultBody EXCEPT !.webhookUrl = FtpUrl],
      [DefaultBody EXCEPT !.network = NonString] }

\* req.body of POST /payment with an amount that is negative (-5) or below one (0.5)
AmountBodies ==
    {[DefaultBody EXCEPT !.amount = a, !.webhookUrl = None] : a \in {-50, 5}}

Bodies == ValidBodies \cup InvalidBodies \cup AmountBodies

----
\* --------------------------------------------------------------- state

NoRequest ==
    [id |-> NULL, transactionId |-> NULL, username |-> NULL, amount |-> 0,
     network |-> <<>>, destinationWallet |-> <<>>, webhookUrl |-> None,
     webhookSecret |-> NULL, timestamp |-> None, status |-> NULL,
     transactionHash |-> None, completedAt |-> None, networkFee |-> None,
     error |-> NULL, errorAt |-> None]

NoBody ==
    [transactionId |-> NULL, username |-> NULL, amount |-> 0, network |-> <<>>,
     destinationWallet |-> <<>>, webhookUrl |-> None, webhookSecret |-> NULL]

NoHook == [event |-> NULL, attempt |-> 0, data |-> NoRequest, url |-> None, secret |-> NULL,
           timestamp |-> 0, payloadString |-> <<>>, stringified |-> 0,
           headers |-> [timestamp |-> <<>>, signature |-> <<>>, signature256 |-> <<>>],
           slept |-> 0, posts |-> <<>>, status |-> <<>>]

NoOutcome == [kind |-> "none", value |-> None, error |-> NULL]

NoResponse == [status |-> 0, success |-> FALSE, paymentId |-> NULL,
               transactionHash |-> None, message |-> NULL]

EmptyDir == [f \in {} |-> NoRequest]

\* no reprocessFailedWebhooks call is running
NoReprocess == [started |-> EmptyDir, files |-> {}, file |-> None, results |-> {}]

\* detectAddressType has not been called
NotClassified == [address |-> <<>>, type |-> NULL]

\* a file whose text is not JSON: a write cut short, or a file put there by hand
TruncatedFile == [text |-> "{ \"id\": "]

\* a listing endpoint has not answered
NoListing == [status |-> 0, success |-> FALSE, count |-> 0, payments |-> {}, message |-> NULL]

\* the two listing endpoints, GET /pending and GET /sent
Listings == {"pending", "sent"}

NoListings == [e \in Listings |-> NoListing]

\* the three balance queries of getAllBalances, in the order of its array
Fetches == <<"getOnChainBalance", "getChannelBalance", "liquid.getBalance">>

FetchNames == {Fetches[i] : i \in 1..3}

\* no balance snapshot
NoSnapshot == [bitcoin |-> None, lightning |-> None, liquid |-> None, timestamp |-> None]

\* getAllBalances has not been called
NoBalances ==
    [state |-> "idle",
     fetch |-> [k \in FetchNames |-> [state |-> "notStarted", value |-> None]],
     result |-> NoSnapshot, error |-> NULL]

\* fs.writeFileSync(dir/name, content)
writeFile(dir, name, content) ==
    [f \in DOMAIN dir \cup {name} |-> IF f = name THEN content ELSE dir[f]]

\* fs.unlinkSync(dir/name)
unlink(dir, name) == [f \in DOMAIN dir \ {name} |-> dir[f]]

\* `${paymentRequest.id}_${paymentRequest.transactionId}.json`, with its prefix
FileName(prefix, rq) == <<prefix, rq.id, rq.transactionId>>

Init ==
    /\ config \in {[enabled |-> e, retryAttempts |-> RetryAttempts,
                    retryDelay |-> RetryDelay,
                    logFailures |-> TRUE, saveFailedWebhooks |-> TRUE] : e \in BOOLEAN}
    /\ now = 0
    /\ pc = [r \in Reqs |-> "idle"]
    /\ body = [r \in Reqs |-> NoBody]
    /\ req = [r \in Reqs |-> NoRequest]
    /\ caught = [r \in Reqs |-> NULL]
    /\ wh = [r \in Reqs |-> NoHook]
    /\ hooks = [r \in Reqs |-> <<>>]
    /\ log = [r \in Reqs |-> <<>>]
    /\ settleCalls = [r \in Reqs |-> <<>>]
    /\ outcome = [r \in Reqs |-> NoOutcome]
    /\ response = [r \in Reqs |-> NoResponse]
    /\ payment_req = EmptyDir
    /\ payment_sent = EmptyDir
    /\ webhook_failures = EmptyDir
    /\ reprocess = [r \in Reqs |-> NoReprocess]
    /\ listing = NoListings
    /\ allBalances = NoBalances
    /\ classified = NotClassified

----
\* ------------------------------------------------- WebhookManager.sendWebhook

\* crypto.createHmac('sha256', secret).update(payload, 'utf8').digest('hex'):
\* a value that stands for the digest of exactly this key and these bytes
generateSignature(payload, secret) == <<"hmac-sha256", secret, payload>>

\* JSON.stringify(payload): the members of the payload object in insertion order
JSONstringify(payload) ==
    <<"{event:", payload.event, ",timestamp:", payload.timestamp,
      ",data:", payload.data, ",server:{name:LND-RPC-Server,version:2.0.0}}">>

\* faulty variant of axiosBody, for sensitivity runs: the body is indented as the failure files are
axiosBody_Pretty(payload) == <<"indent 2">> \o JSONstringify(payload)

\* the request body axios.post(webhookUrl, payload, ...) transmits for an object
axiosBody(payload) == JSONstringify(payload)

\* if (webhookSecret): null, undefined and the empty string are not a secret
truthy(secret) == secret \notin {NULL, ""}

\* faulty variant of buildHeaders, for sensitivity runs: only X-Webhook-Signature is set
buildHeaders_OneSignature(payloadString, webhookSecret) ==
    [timestamp |-> Some(now \div 1000),
     signature |-> IF truthy(webhookSecret)
                   THEN Some(<<"sha256=", generateSignature(payloadString, webhookSecret)>>)
                   ELSE None,
     signature256 |-> None]

\* the headers of sendWebhook: X-Webhook-Signature and X-Webhook-Signature-256
\* when a secret is given, X-Webhook-Timestamp in seconds always
buildHeaders(payloadString, webhookSecret) ==
    [timestamp |-> Some(now \div 1000),
     signature |-> IF truthy(webhookSecret)
                   THEN Some(<<"sha256=", generateSignature(payloadString, webhookSecret)>>)
                   ELSE None,
     signature256 |-> IF truthy(webhookSecret)
                      THEN Some(<<"sha256=", generateSignature(payloadString, webhookSecret)>>)
                      ELSE None]

\* faulty variant of maxAttempts, for sensitivity runs: the first attempt is counted as a retry
maxAttempts_NoFirst(cfg) == cfg.retryAttempts

\* const maxAttempts = this.config.retryAttempts + 1
maxAttempts(cfg) == cfg.retryAttempts + 1

\* faulty variant of retryWait, for sensitivity runs: the delay grows with the attempt number
retryWait_Backoff(cfg, attempt) == cfg.retryDelay * attempt

\* the argument of this.sleep after the failed attempt number `attempt`
retryWait(cfg, attempt) == cfg.retryDelay

\* faulty variant of saveFailedWebhookThrows, for sensitivity runs: the write is not guarded
saveFailedWebhookThrows_NoCatch(diskOk) == ~diskOk

\* whether saveFailedWebhook throws when its write does: the write sits in a
\* try whose catch only logs
saveFailedWebhookThrows(diskOk) == FALSE

HookPc(event) ==
    CASE event = "payment.pending" -> "pendingHook"
      [] event = "payment.completed" -> "completedHook"
      [] event = "payment.failed" -> "failedHook"
      [] event = "webhook.test" -> "testHook"

\* where processPayment goes on once its awaited sendWebhook call has returned
AfterHookPc(event) ==
    CASE event = "payment.pending" -> "route"
      [] event = "payment.completed" -> "moveFile"
      [] event = "payment.failed" -> "saveError"
      [] event = "webhook.test" -> "testDone"

\* the statement a sendWebhook call of request r returns to
AfterCall(r, event) == IF pc[r] = "retryHook" THEN "retryResult" ELSE AfterHookPc(event)

\* sendWebhook(webhookUrl, paymentData, event, webhookSecret) up to its retry
\* loop: nothing is built when webhooks are disabled; otherwise the payload
\* takes its timestamp, is serialized and signed, and the headers are set
NewCall(event, paymentData, webhookUrl, webhookSecret) ==
    IF ~config.enabled
    THEN [NoHook EXCEPT !.event = event, !.data = paymentData, !.url = webhookUrl,
                        !.secret = webhookSecret]
    ELSE LET payload == [event |-> event, timestamp |-> now, data |-> paymentData]
             payloadString == JSONstringify(payload)
         IN  [NoHook EXCEPT !.event = event, !.data = paymentData, !.url = webhookUrl,
                            !.secret = webhookSecret,
                            !.timestamp = now,
                            !.payloadString = payloadString,
                            !.stringified = 1,
                            !.headers = buildHeaders(payloadString, webhookSecret)]

\* faulty variant of StartHook, for sensitivity runs: the call is not awaited, processPayment goes on at once
StartHook_NoAwait(r, event, rq, lg) ==
    /\ wh' = wh
    /\ pc' = [pc EXCEPT ![r] = AfterHookPc(event)]
    /\ log' = [log EXCEPT ![r] = Append(lg, "fire:" \o event)]

\* processPayment calls sendPayment<Event>Webhook(webhookUrl, paymentRequest, webhookSecret):
\* request r, holding rq and having logged lg, is suspended in sendWebhook
StartHook(r, event, rq, lg) ==
    /\ wh' = [wh EXCEPT ![r] = NewCall(event, rq, rq.webhookUrl, rq.webhookSecret)]
    /\ pc' = [pc EXCEPT ![r] = HookPc(event)]
    /\ log' = [log EXCEPT ![r] = Append(lg, "fire:" \o event)]

\* what is kept of a sendWebhook call `call` that has returned `delivered`
\* after writing the failure file `saved`, or thrown
HookEntry(call, delivered, saved, threw) ==
    [event |-> call.event, delivered |-> delivered, attempts |-> Len(call.posts),
     status |-> call.status, secret |-> call.secret,
     payloadString |-> call.payloadString, stringified |-> call.stringified,
     posts |-> call.posts, saved |-> saved, threw |-> threw]

\* faulty variant of FinishHook, for sensitivity runs: an undelivered webhook aborts processPayment
FinishHook_Abort(r, delivered, call, saved, threw) ==
    /\ hooks' = [hooks EXCEPT ![r] = Append(@, HookEntry(call, delivered, saved, threw))]
    /\ log' = [log EXCEPT ![r] = Append(@, "done:" \o call.event)]
    /\ pc' = [pc EXCEPT ![r] = IF delivered THEN AfterCall(r, call.event)
                                ELSE "saveError"]
    /\ wh' = [wh EXCEPT ![r] = NoHook]

\* sendWebhook returns: the call is over, its caller resumes
FinishHook(r, delivered, call, saved, threw) ==
    /\ hooks' = [hooks EXCEPT ![r] = Append(@, HookEntry(call, delivered, saved, threw))]
    /\ log' = [log EXCEPT ![r] = Append(@, "done:" \o call.event)]
    /\ pc' = [pc EXCEPT ![r] = AfterCall(r, call.event)]
    /\ wh' = [wh EXCEPT ![r] = NoHook]

InHook(r) == pc[r] \in {"pendingHook", "completedHook", "failedHook", "testHook", "retryHook"}

\* sendWebhook with webhooks disabled: returns true, nothing is sent
WebhookDisabled(r) ==
    /\ InHook(r)
    /\ ~config.enabled
    /\ FinishHook(r, TRUE, wh[r], None, FALSE)
    /\ UNCHANGED <<listing, allBalances, classified, reprocess, config, body, now, req, caught, settleCalls, outcome,
                   response, payment_req, payment_sent, webhook_failures>>

\* the failureData object of saveFailedWebhook
FailureData(webhookUrl, payload, errorMessage, at, cfg) ==
    [webhookUrl |-> webhookUrl, payload |-> payload, error |-> errorMessage,
     failedAt |-> at, attempts |-> cfg.retryAttempts + 1]

\* `failed_webhook_${Date.now()}_${payload.data?.transactionId || 'unknown'}.json`
FailureName(at, payload) ==
    <<at, IF payload.data.transactionId = NULL THEN "unknown"
          ELSE payload.data.transactionId>>

\* faulty variant of saveFailedWebhook, for sensitivity runs: nothing is written
saveFailedWebhook_Drop(webhookUrl, payload, errorMessage, diskOk) ==
    webhook_failures' = webhook_failures

\* WebhookManager.saveFailedWebhook; the write may fail, which is caught and logged
saveFailedWebhook(webhookUrl, payload, errorMessage, diskOk) ==
    IF diskOk
    THEN webhook_failures' = writeFile(webhook_failures, FailureName(now, payload),
                                 FailureData(webhookUrl, payload, errorMessage, now, config))
    ELSE webhook_failures' = webhook_failures

\* the paymentData object of the running call: processPayment hands over its
\* paymentRequest object itself, the other callers an object of their own
PayloadData(r) ==
    IF pc[r] \in {"pendingHook", "completedHook", "failedHook"} THEN req[r] ELSE wh[r].data

\* one pass of sendWebhook's retry loop: axios.post answered with `status`
WebhookAttempt(r, status, diskOk) ==
    /\ InHook(r)
    /\ config.enabled
    /\ wh[r].attempt < maxAttempts(config)
    /\ LET payload == [event |-> wh[r].event, timestamp |-> wh[r].timestamp,
                       data |-> PayloadData(r)]
           post == [waited |-> wh[r].slept, headers |-> wh[r].headers,
                    body |-> axiosBody(payload)]
           attempt == IF validateStatus(status) THEN wh[r].attempt ELSE wh[r].attempt + 1
           call == [wh[r] EXCEPT !.posts = Append(@, post), !.status = Some(status),
                                 !.stringified = @ + 1, !.attempt = attempt]
           isLastAttempt == attempt >= maxAttempts(config)
       IN  IF validateStatus(status)
           THEN /\ FinishHook(r, TRUE, call, None, FALSE)
                /\ UNCHANGED <<now, webhook_failures>>
           ELSE IF isLastAttempt
           THEN /\ IF config.saveFailedWebhooks
                   THEN saveFailedWebhook(wh[r].url, payload, AxiosError(status), diskOk)
                   ELSE webhook_failures' = webhook_failures
                /\ FinishHook(r, FALSE, call,
                              IF config.saveFailedWebhooks /\ diskOk
                              THEN Some(FailureName(now, payload)) ELSE None,
                              config.saveFailedWebhooks /\ saveFailedWebhookThrows(diskOk))
                /\ now' = now
           ELSE \* await this.sleep(this.config.retryDelay)
                /\ wh' = [wh EXCEPT ![r] = [call EXCEPT !.slept = retryWait(config, attempt)]]
                /\ now' = now + retryWait(config, attempt)
                /\ UNCHANGED <<pc, hooks, log, webhook_failures>>
    /\ UNCHANGED <<listing, allBalances, classified, reprocess, config, body, req, caught, settleCalls, outcome,
                   response, payment_req, payment_sent>>

----
\* ------------------------------------------- PaymentProcessor.processPayment

\* processPayment's first statements, up to its first await: the pending webhook
\* when the request names a webhookUrl, the routing otherwise
BeginProcess(r, rq) ==
    IF rq.webhookUrl # None
    THEN StartHook(r, "payment.pending", rq, log[r])
    ELSE /\ pc' = [pc EXCEPT ![r] = "route"]
         /\ UNCHANGED <<wh, log>>

\* faulty variant of Catch, for sensitivity runs: the failed webhook is not sent
Catch_NoFailedHook(r, e, rq, lg) ==
    LET failed == [rq EXCEPT !.status = "error", !.error = e, !.errorAt = Some(now)]
    IN  /\ caught' = [caught EXCEPT ![r] = e]
        /\ req' = [req EXCEPT ![r] = failed]
        /\ pc' = [pc EXCEPT ![r] = "saveError"]
        /\ log' = [log EXCEPT ![r] = lg]
        /\ wh' = wh

\* the catch block up to its first await: status, error and errorAt are set on
\* the request rq as it is when error e is caught, then the failed webhook is
\* sent when the request names a webhookUrl
Catch(r, e, rq, lg) ==
    LET failed == [rq EXCEPT !.status = "error", !.error = e, !.errorAt = Some(now)]
    IN  /\ caught' = [caught EXCEPT ![r] = e]
        /\ req' = [req EXCEPT ![r] = failed]
        /\ IF rq.webhookUrl # None
           THEN StartHook(r, "payment.failed", failed, lg)
           ELSE /\ pc' = [pc EXCEPT ![r] = "saveError"]
                /\ log' = [log EXCEPT ![r] = lg]
                /\ wh' = wh

\* LightningRPC.sendPayment: the path the unified client takes for a destination
LndPath(destination) ==
    IF isLightningDestination(destination)
    THEN IF includes(destination, "@")
         THEN "resolveLightningAddress+payInvoice"
         ELSE "payInvoice"
    ELSE "sendCoins"

\* faulty variant of Backend, for sensitivity runs: the liquid case falls into the LND branch
Backend_AllLnd(network) ==
    CASE toLowerCase(network) \in {BITCOIN, LIGHTNING, LIQUID} -> "lightningRPC"
      [] OTHER -> "unsupported"

\* faulty variant of Backend, for sensitivity runs: the lightning label is sent to the Liquid branch
Backend_LightningToLiquid(network) ==
    CASE toLowerCase(network) = BITCOIN -> "lightningRPC"
      [] toLowerCase(network) \in {LIGHTNING, LIQUID} -> "liquidRPC"
      [] OTHER -> "unsupported"

\* the switch on paymentRequest.network.toLowerCase()
Backend(network) ==
    CASE toLowerCase(network) \in {BITCOIN, LIGHTNING} -> "lightningRPC"
      [] toLowerCase(network) = LIQUID -> "liquidRPC"
      [] OTHER -> "unsupported"

\* the backend call processPayment makes for request rq
SettleCall(rq) ==
    [backend |-> Backend(rq.network),
     destination |-> rq.destinationWallet,
     amount |-> rq.amount,
     path |-> IF Backend(rq.network) = "lightningRPC"
              THEN LndPath(rq.destinationWallet)
              ELSE "sendtoaddress",
     result |-> None]

\* phase 2: the backend's sendPayment is called, or the network is not supported
Route(r) ==
    /\ pc[r] = "route"
    /\ IF Backend(req[r].network) = "unsupported"
       THEN /\ Catch(r, UnsupportedNetworkError, req[r], log[r])
            /\ UNCHANGED settleCalls
       ELSE /\ settleCalls' = [settleCalls EXCEPT ![r] = Append(@, SettleCall(req[r]))]
            /\ log' = [log EXCEPT ![r] = Append(@, "call:sendPayment")]
            /\ pc' = [pc EXCEPT ![r] = "settling"]
            /\ UNCHANGED <<req, caught, wh>>
    /\ UNCHANGED <<listing, allBalances, classified, reprocess, config, body, now, hooks, outcome, response,
                   payment_req, payment_sent, webhook_failures>>

\* faulty variant of SettleOk, for sensitivity runs: the fee is taken off the recorded amount
SettleOk_NetAmount(r, result) ==
    /\ pc[r] = "settling"
    /\ LET sent == [req[r] EXCEPT !.status = "sent",
                                  !.amount = @ - result.fee,
                                  !.transactionHash = Some(result.transactionHash),
                                  !.completedAt = Some(now),
                                  !.networkFee = Some(orZero(result.fee))]
           lg == Append(log[r], "done:sendPayment")
       IN  /\ req' = [req EXCEPT ![r] = sent]
           /\ outcome' = [outcome EXCEPT ![r] = [kind |-> "none",
                                                 value |-> Some(result), error |-> NULL]]
           /\ IF sent.webhookUrl # None
              THEN StartHook(r, "payment.completed", sent, lg)
              ELSE /\ pc' = [pc EXCEPT ![r] = "moveFile"]
                   /\ log' = [log EXCEPT ![r] = lg]
                   /\ wh' = wh
    /\ settleCalls' = [settleCalls EXCEPT ![r][Len(settleCalls[r])].result = Some(result)]
    /\ UNCHANGED <<listing, allBalances, classified, reprocess, config, body, now, caught, hooks, response,
                   payment_req, payment_sent, webhook_failures>>

\* phases 3 and 4: sendPayment resolved with `result`
SettleOk(r, result) ==
    /\ pc[r] = "settling"
    /\ LET sent == [req[r] EXCEPT !.status = "sent",
                                  !.transactionHash = Some(result.transactionHash),
                                  !.completedAt = Some(now),
                                  !.networkFee = Some(orZero(result.fee))]
           lg == Append(log[r], "done:sendPayment")
       IN  /\ req' = [req EXCEPT ![r] = sent]
           /\ outcome' = [outcome EXCEPT ![r] = [kind |-> "none",
                                                 value |-> Some(result), error |-> NULL]]
           /\ IF sent.webhookUrl # None
              THEN StartHook(r, "payment.completed", sent, lg)
              ELSE /\ pc' = [pc EXCEPT ![r] = "moveFile"]
                   /\ log' = [log EXCEPT ![r] = lg]
                   /\ wh' = wh
    /\ settleCalls' = [settleCalls EXCEPT ![r][Len(settleCalls[r])].result = Some(result)]
    /\ UNCHANGED <<listing, allBalances, classified, reprocess, config, body, now, caught, hooks, response,
                   payment_req, payment_sent, webhook_failures>>

\* faulty variant of SettleThrow, for sensitivity runs: the settlement call is tried again
SettleThrow_Retry(r) ==
    /\ pc[r] = "settling"
    /\ pc' = [pc EXCEPT ![r] = "route"]
    /\ log' = [log EXCEPT ![r] = Append(@, "throw:sendPayment")]
    /\ UNCHANGED <<listing, allBalances, classified, reprocess, config, body, now, req, caught, wh, hooks, settleCalls, outcome,
                   response, payment_req, payment_sent, webhook_failures>>

\* sendPayment rejected
SettleThrow(r) ==
    /\ pc[r] = "settling"
    /\ Catch(r, SettleError, req[r], Append(log[r], "throw:sendPayment"))
    /\ UNCHANGED <<listing, allBalances, classified, reprocess, config, body, now, hooks, settleCalls, outcome, response,
                   payment_req, payment_sent, webhook_failures>>

\* faulty variant of moveWrite, for sensitivity runs: the payment_req file is removed first
moveWrite_DeleteFirst(rq, dirs) ==
    [req |-> IF FileName("", rq) \in DOMAIN dirs.req
             THEN unlink(dirs.req, FileName("", rq)) ELSE dirs.req,
     sent |-> dirs.sent]

\* movePaymentFile up to and including its fs.writeFileSync(destFile, ...)
moveWrite(rq, dirs) ==
    [req |-> dirs.req, sent |-> writeFile(dirs.sent, FileName("", rq), rq)]

\* faulty variant of movePaymentFile, for sensitivity runs: the payment_req file is left behind
movePaymentFile_NoDelete(rq, dirs) == moveWrite(rq, dirs)

\* PaymentProcessor.movePaymentFile run to its end on the two directories
movePaymentFile(rq, dirs) ==
    [req |-> IF FileName("", rq) \in DOMAIN dirs.req
             THEN unlink(dirs.req, FileName("", rq)) ELSE dirs.req,
     sent |-> writeFile(dirs.sent, FileName("", rq), rq)]

\* phase 5, PaymentProcessor.movePaymentFile: the record is written into
\* payment_sent and the payment_req file removed; when the write throws,
\* processPayment's catch takes over
MovePaymentFile(r, diskOk) ==
    /\ pc[r] = "moveFile"
    /\ IF diskOk
       THEN /\ LET dirs == movePaymentFile(req[r], [req |-> payment_req,
                                                       sent |-> payment_sent])
               IN  /\ payment_sent' = dirs.sent
                   /\ payment_req' = dirs.req
            /\ log' = [log EXCEPT ![r] = Append(@, "write:payment_sent")]
            /\ outcome' = [outcome EXCEPT ![r].kind = "return"]
            /\ pc' = [pc EXCEPT ![r] = "finished"]
            /\ UNCHANGED <<req, caught, wh>>
       ELSE /\ Catch(r, WriteSentError, req[r], Append(log[r], "throw:payment_sent"))
            /\ UNCHANGED <<payment_req, payment_sent, outcome>>
    /\ UNCHANGED <<listing, allBalances, classified, reprocess, config, body, now, hooks, settleCalls, response, webhook_failures>>

\* phase 5 when fs.unlinkSync throws: the record is in payment_sent already,
\* the payment_req file stays, and processPayment's catch takes over
MoveUnlinkThrows(r) ==
    /\ pc[r] = "moveFile"
    /\ FileName("", req[r]) \in DOMAIN payment_req
    /\ LET dirs == moveWrite(req[r], [req |-> payment_req, sent |-> payment_sent])
       IN  /\ payment_sent' = dirs.sent
           /\ payment_req' = dirs.req
    /\ Catch(r, UnlinkError, req[r],
             log[r] \o <<"write:payment_sent", "throw:unlink">>)
    /\ UNCHANGED <<listing, allBalances, classified, reprocess, config, body, now, hooks,
                   settleCalls, outcome, response, webhook_failures>>

\* faulty variant of savePaymentWithError, for sensitivity runs: the error file replaces the original
savePaymentWithError_Replace(rq, dir) ==
    writeFile(IF FileName("", rq) \in DOMAIN dir THEN unlink(dir, FileName("", rq)) ELSE dir,
              FileName("ERROR_", rq), rq)

\* PaymentProcessor.savePaymentWithError on the payment_req directory
savePaymentWithError(rq, dir) == writeFile(dir, FileName("ERROR_", rq), rq)

\* PaymentProcessor.savePaymentWithError and the end of the catch block: the
\* caught error is thrown again, unless the write itself throws
SavePaymentWithError(r, diskOk) ==
    /\ pc[r] = "saveError"
    /\ IF diskOk
       THEN /\ payment_req' = savePaymentWithError(req[r], payment_req)
            /\ log' = [log EXCEPT ![r] = Append(@, "write:ERROR_")]
            /\ outcome' = [outcome EXCEPT ![r] = [kind |-> "throw", value |-> None,
                                                  error |-> caught[r]]]
       ELSE /\ payment_req' = payment_req
            /\ log' = [log EXCEPT ![r] = Append(@, "throw:ERROR_")]
            /\ outcome' = [outcome EXCEPT ![r] = [kind |-> "throw", value |-> None,
                                                  error |-> WriteErrorFileError]]
    /\ pc' = [pc EXCEPT ![r] = "finished"]
    /\ UNCHANGED <<listing, allBalances, classified, reprocess, config, body, now, req, caught, wh, hooks, settleCalls, response,
                   payment_sent, webhook_failures>>

----
\* ------------------------------------------------------ server.js POST /payment

\* the three validations of the handler; "" when the body passes them
ValidationError(b) ==
    IF \/ b.transactionId = NULL \/ b.username = NULL \/ b.amount = 0
       \/ b.network = <<>> \/ b.destinationWallet = <<>>
    THEN "Dados obrigatorios faltando"
    ELSE IF toLowerCase(b.network) \notin {BITCOIN, LIGHTNING, LIQUID}
    THEN "Rede nao suportada"
    ELSE IF b.webhookUrl # None /\ ~validateWebhookUrl(b.webhookUrl)
    THEN "URL de webhook invalida"
    ELSE ""

\* the validations throw: every required field is truthy and network is not a
\* string, so that network.toLowerCase() is a TypeError
ValidationThrows(b) ==
    /\ b.transactionId # NULL /\ b.username # NULL /\ b.amount # 0
    /\ b.destinationWallet # <<>>
    /\ b.network = NonString

\* the paymentRequest object the handler builds; uuidv4() gives each request its own id
NewRequest(r, b) ==
    [NoRequest EXCEPT !.id = "id-" \o r,
                      !.transactionId = b.transactionId,
                      !.username = b.username,
                      !.amount = parseInt(b.amount),
                      !.network = toLowerCase(b.network),
                      !.destinationWallet = b.destinationWallet,
                      !.webhookUrl = b.webhookUrl,
                      !.webhookSecret = b.webhookSecret,
                      !.timestamp = Some(now),
                      !.status = "pending"]

\* faulty variant of PostPayment, for sensitivity runs: a failed payment_req write is ignored
PostPayment_SwallowWrite(r, b, diskOk) ==
    /\ pc[r] = "idle"
    /\ IF ValidationThrows(b)
       THEN /\ response' = [response EXCEPT ![r] = [NoResponse EXCEPT
                                !.status = 500, !.message = ToLowerCaseError]]
            /\ pc' = [pc EXCEPT ![r] = "responded"]
            /\ UNCHANGED <<req, wh, log, payment_req>>
       ELSE IF ValidationError(b) # ""
       THEN /\ response' = [response EXCEPT ![r] = [NoResponse EXCEPT
                                !.status = 400, !.message = ValidationError(b)]]
            /\ pc' = [pc EXCEPT ![r] = "responded"]
            /\ UNCHANGED <<req, wh, log, payment_req>>
       ELSE LET rq == NewRequest(r, b)
            IN  /\ req' = [req EXCEPT ![r] = rq]
                /\ payment_req' = IF diskOk THEN writeFile(payment_req, FileName("", rq), rq)
                                  ELSE payment_req
                /\ BeginProcess(r, rq)
                /\ UNCHANGED response
    /\ body' = [body EXCEPT ![r] = b]
    /\ UNCHANGED <<listing, allBalances, classified, reprocess, config, now, caught, hooks, settleCalls, outcome,
                   payment_sent, webhook_failures>>

\* POST /payment up to the first await of processPayment: validation, the
\* payment_req write (which may throw) and the call of processPayment
PostPayment(r, b, diskOk) ==
    /\ pc[r] = "idle"
    /\ IF ValidationThrows(b)
       THEN /\ response' = [response EXCEPT ![r] = [NoResponse EXCEPT
                                !.status = 500, !.message = ToLowerCaseError]]
            /\ pc' = [pc EXCEPT ![r] = "responded"]
            /\ UNCHANGED <<req, wh, log, payment_req>>
       ELSE IF ValidationError(b) # ""
       THEN /\ response' = [response EXCEPT ![r] = [NoResponse EXCEPT
                                !.status = 400, !.message = ValidationError(b)]]
            /\ pc' = [pc EXCEPT ![r] = "responded"]
            /\ UNCHANGED <<req, wh, log, payment_req>>
       ELSE IF ~diskOk
       THEN /\ response' = [response EXCEPT ![r] = [NoResponse EXCEPT
                                !.status = 500, !.message = WriteReqError]]
            /\ pc' = [pc EXCEPT ![r] = "responded"]
            /\ UNCHANGED <<req, wh, log, payment_req>>
       ELSE LET rq == NewRequest(r, b)
            IN  /\ req' = [req EXCEPT ![r] = rq]
                /\ payment_req' = writeFile(payment_req, FileName("", rq), rq)
                /\ BeginProcess(r, rq)
                /\ UNCHANGED response
    /\ body' = [body EXCEPT ![r] = b]
    /\ UNCHANGED <<listing, allBalances, classified, reprocess, config, now, caught, hooks, settleCalls, outcome,
                   payment_sent, webhook_failures>>

\* the handler after `await paymentProcessor.processPayment(paymentRequest)`:
\* res.json({success: true, ...}) or the catch's res.status(500)
Respond(r) ==
    /\ pc[r] = "finished"
    /\ response' = [response EXCEPT ![r] =
          IF outcome[r].kind = "return"
          THEN [NoResponse EXCEPT !.status = 200, !.success = TRUE,
                                  !.paymentId = req[r].id,
                                  !.transactionHash = Some(outcome[r].value[1].transactionHash)]
          ELSE [NoResponse EXCEPT !.status = 500, !.message = outcome[r].error]]
    /\ pc' = [pc EXCEPT ![r] = "responded"]
    /\ UNCHANGED <<listing, allBalances, classified, reprocess, config, body, now, req, caught, wh, hooks, log, settleCalls, outcome,
                   payment_req, payment_sent, webhook_failures>>

\* the testPayload object of WebhookManager.sendTestWebhook
TestPayload ==
    [NoRequest EXCEPT !.id = "test-webhook-" \o ToString(now),
                      !.transactionId = "test-transaction",
                      !.username = "test-user",
                      !.amount = 1000,
                      !.network = LIGHTNING,
                      !.destinationWallet = <<"t","e","s","t","@","e","x",".","c">>,
                      !.status = "test",
                      !.timestamp = Some(now)]

\* POST /webhook/test up to the first await of sendTestWebhook: the two checks
\* of webhookUrl, then sendWebhook(webhookUrl, testPayload, 'webhook.test', webhookSecret)
PostWebhookTest(r, webhookUrl, webhookSecret) ==
    /\ pc[r] = "idle"
    /\ IF webhookUrl = None
       THEN /\ response' = [response EXCEPT ![r] = [NoResponse EXCEPT
                                !.status = 400, !.message = "URL de webhook obrigatoria"]]
            /\ pc' = [pc EXCEPT ![r] = "responded"]
            /\ UNCHANGED <<wh, log>>
       ELSE IF ~validateWebhookUrl(webhookUrl)
       THEN /\ response' = [response EXCEPT ![r] = [NoResponse EXCEPT
                                !.status = 400, !.message = "URL de webhook invalida"]]
            /\ pc' = [pc EXCEPT ![r] = "responded"]
            /\ UNCHANGED <<wh, log>>
       ELSE /\ wh' = [wh EXCEPT ![r] = NewCall("webhook.test", TestPayload,
                                                webhookUrl, webhookSecret)]
            /\ pc' = [pc EXCEPT ![r] = "testHook"]
            /\ log' = [log EXCEPT ![r] = Append(@, "fire:webhook.test")]
            /\ UNCHANGED response
    /\ UNCHANGED <<listing, allBalances, classified, reprocess, config, body, now, req, caught, hooks, settleCalls,
                   outcome, payment_req, payment_sent, webhook_failures>>

\* POST /webhook/test after `await sendTestWebhook(...)`: res.json({success, ...})
RespondWebhookTest(r) ==
    /\ pc[r] = "testDone"
    /\ response' = [response EXCEPT ![r] = [NoResponse EXCEPT
                        !.status = 200,
                        !.success = hooks[r][Len(hooks[r])].delivered]]
    /\ pc' = [pc EXCEPT ![r] = "responded"]
    /\ UNCHANGED <<listing, allBalances, classified, reprocess, config, body, now, req, caught, wh, hooks, log,
                   settleCalls, outcome, payment_req, payment_sent, webhook_failures>>

\* faulty variant of shouldUnlink, for sensitivity runs: the file is removed whatever the resend returned
shouldUnlink_Always(success) == TRUE

\* if (success) fs.unlinkSync(filepath)
shouldUnlink(success) == success

\* the loop of reprocessFailedWebhooks up to its next await: of the files still
\* to do, one that can be read is parsed and resent through
\* sendWebhook(webhookUrl, payload.data, payload.event), without a secret; a file
\* that cannot be read is logged and skipped; when none is left the call returns
ReprocessLoop(r, rp, dir) ==
    LET readable == rp.files \cap DOMAIN dir
    IN  IF readable = {}
        THEN /\ reprocess' = [reprocess EXCEPT ![r] = [rp EXCEPT !.files = {}, !.file = None]]
             /\ pc' = [pc EXCEPT ![r] = "retryDone"]
             /\ UNCHANGED <<wh, log>>
        ELSE \E file \in readable :
                /\ reprocess' = [reprocess EXCEPT ![r] =
                                    [rp EXCEPT !.files = rp.files \ {file}, !.file = Some(file)]]
                /\ wh' = [wh EXCEPT ![r] = NewCall(dir[file].payload.event,
                                                    dir[file].payload.data,
                                                    dir[file].webhookUrl, NULL)]
                /\ pc' = [pc EXCEPT ![r] = "retryHook"]
                /\ log' = [log EXCEPT ![r] = Append(@, "fire:" \o dir[file].payload.event)]

\* POST /webhook/retry-failed up to the first await of reprocessFailedWebhooks:
\* the failure files are listed and the loop is entered
PostRetryFailed(r) ==
    /\ pc[r] = "idle"
    /\ ReprocessLoop(r, [started |-> webhook_failures, files |-> DOMAIN webhook_failures,
                         file |-> None, results |-> {}],
                     webhook_failures)
    /\ UNCHANGED <<listing, allBalances, classified, config, body, now, req, caught, hooks, settleCalls, outcome,
                   response, payment_req, payment_sent, webhook_failures>>

\* reprocessFailedWebhooks after `await this.sendWebhook(...)`: the file is
\* removed when the resend succeeded (a failing unlink is logged), and the loop
\* goes on
ReprocessResult(r) ==
    /\ pc[r] = "retryResult"
    /\ LET success == hooks[r][Len(hooks[r])].delivered
           file == reprocess[r].file[1]
           dir == IF shouldUnlink(success) /\ file \in DOMAIN webhook_failures
                  THEN unlink(webhook_failures, file)
                  ELSE webhook_failures
       IN  /\ webhook_failures' = dir
           /\ ReprocessLoop(r, [reprocess[r] EXCEPT
                                    !.results = @ \cup {<<file, Len(hooks[r]), success>>}],
                            dir)
    /\ UNCHANGED <<listing, allBalances, classified, config, body, now, req, caught, hooks, settleCalls, outcome,
                   response, payment_req, payment_sent>>

\* POST /webhook/retry-failed after `await reprocessFailedWebhooks()`: res.json
RespondRetryFailed(r) ==
    /\ pc[r] = "retryDone"
    /\ response' = [response EXCEPT ![r] = [NoResponse EXCEPT !.status = 200,
                                                               !.success = TRUE]]
    /\ pc' = [pc EXCEPT ![r] = "responded"]
    /\ UNCHANGED <<listing, allBalances, classified, reprocess, config, body, now, req, caught, wh, hooks, log,
                   settleCalls, outcome, payment_req, payment_sent, webhook_failures>>

\* the process dies while request r is suspended at an await of processPayment
Crash(r) ==
    /\ pc[r] \in {"pendingHook", "completedHook", "failedHook", "route", "settling",
                  "moveFile", "saveError"}
    /\ pc' = [pc EXCEPT ![r] = "crashed"]
    /\ UNCHANGED <<listing, allBalances, classified, reprocess, config, body, now, req, caught, wh, hooks, log,
                   settleCalls, outcome, response, payment_req, payment_sent,
                   webhook_failures>>

\* the process dies inside movePaymentFile, between its write and its delete
CrashInMove(r) ==
    /\ pc[r] = "moveFile"
    /\ LET dirs == moveWrite(req[r], [req |-> payment_req, sent |-> payment_sent])
       IN  /\ payment_req' = dirs.req
           /\ payment_sent' = dirs.sent
    /\ pc' = [pc EXCEPT ![r] = "crashedInMove"]
    /\ UNCHANGED <<listing, allBalances, classified, reprocess, config, body, now, req, caught, wh, hooks, log,
                   settleCalls, outcome, response, webhook_failures>>

\* movePaymentFile(paymentRequest) is run again with the updated record, after
\* a crash between its write and its delete or after a complete run
RerunMove(r) ==
    /\ \/ pc[r] \in {"crashedInMove", "movedAgain"}
       \/ pc[r] \in {"finished", "responded"} /\ outcome[r].kind = "return"
    /\ LET rq == payment_sent[FileName("", req[r])]
           dirs == movePaymentFile(rq, [req |-> payment_req, sent |-> payment_sent])
       IN  /\ payment_req' = dirs.req
           /\ payment_sent' = dirs.sent
    /\ pc' = [pc EXCEPT ![r] = "movedAgain"]
    /\ UNCHANGED <<listing, allBalances, classified, reprocess, config, body, now, req, caught, wh, hooks, log,
                   settleCalls, outcome, response, webhook_failures>>

\* time passes
Tick ==
    /\ now < MaxClock
    /\ now' = now + 1
    /\ UNCHANGED <<listing, allBalances, classified, reprocess, config, body, pc, req, caught, wh, hooks, log, settleCalls, outcome,
                   response, payment_req, payment_sent, webhook_failures>>

----
\* ------------------------------------------------------- specifications

\* one request at a time, every sample body
Next ==
    \/ \E b \in Bodies, diskOk \in BOOLEAN : PostPayment("r1", b, diskOk)
    \/ WebhookDisabled("r1")
    \/ \E status \in HttpAnswers, diskOk \in BOOLEAN : WebhookAttempt("r1", status, diskOk)
    \/ Route("r1")
    \/ \E result \in SettleResults : SettleOk("r1", result)
    \/ SettleThrow("r1")
    \/ \E diskOk \in BOOLEAN : MovePaymentFile("r1", diskOk)
    \/ MoveUnlinkThrows("r1")
    \/ \E diskOk \in BOOLEAN : SavePaymentWithError("r1", diskOk)
    \/ Respond("r1")
    \/ Tick

Spec == Init /\ [][Next]_vars

----
\* two requests with the same body, the second submitted once processPayment
\* has finished for the first, under a configuration with a short retry budget

PairRetryAttempts == 1

PairBodies == {[DefaultBody EXCEPT !.webhookSecret = "s3cret"]}

PairAnswers == {200, 500, 0}

InitPair ==
    /\ config \in {[enabled |-> e, retryAttempts |-> PairRetryAttempts,
                    retryDelay |-> RetryDelay,
                    logFailures |-> TRUE, saveFailedWebhooks |-> TRUE] : e \in BOOLEAN}
    /\ now = 0
    /\ pc = [r \in Reqs |-> "idle"]
    /\ body = [r \in Reqs |-> NoBody]
    /\ req = [r \in Reqs |-> NoRequest]
    /\ caught = [r \in Reqs |-> NULL]
    /\ wh = [r \in Reqs |-> NoHook]
    /\ hooks = [r \in Reqs |-> <<>>]
    /\ log = [r \in Reqs |-> <<>>]
    /\ settleCalls = [r \in Reqs |-> <<>>]
    /\ outcome = [r \in Reqs |-> NoOutcome]
    /\ response = [r \in Reqs |-> NoResponse]
    /\ payment_req = EmptyDir
    /\ payment_sent = EmptyDir
    /\ webhook_failures = EmptyDir
    /\ reprocess = [r \in Reqs |-> NoReprocess]
    /\ listing = NoListings
    /\ allBalances = NoBalances
    /\ classified = NotClassified

\* the second request is submitted once processPayment has finished for the first
Turn(r) == r = "r2" => pc["r1"] = "finished"

NextPair ==
    \E r \in Reqs :
        \/ \E b \in PairBodies : Turn(r) /\ PostPayment(r, b, TRUE)
        \/ WebhookDisabled(r)
        \/ \E status \in PairAnswers : WebhookAttempt(r, status, TRUE)
        \/ Route(r)
        \/ \E result \in SettleResults : SettleOk(r, result)
        \/ SettleThrow(r)
        \/ \E diskOk \in BOOLEAN : MovePaymentFile(r, diskOk)
        \/ \E diskOk \in BOOLEAN : SavePaymentWithError(r, diskOk)

SpecPair == InitPair /\ [][NextPair]_vars

----
\* the webhook manager on its own: POST /webhook/test by one request and
\* POST /webhook/retry-failed by the other, over a failure directory that may
\* hold records of earlier failures

\* largest config.webhooks.retryAttempts of the sample configurations
MaxRetryAttempts == 2

\* the statuses on either side of the 2xx range, and no answer at all
WebhookAnswers == {0, 199, 200, 299, 300, 404, 500}

TestUrls == {None, FtpUrl, HttpsUrl}

TestSecrets == {NULL, "", "s3cret"}

\* records saveFailedWebhook wrote for two payments whose webhooks failed earlier
StoredPayload(event, transactionId) ==
    [event |-> event, timestamp |-> 0,
     data |-> [NoRequest EXCEPT !.id = "id-" \o transactionId,
                                !.transactionId = transactionId,
                                !.username = "alice",
                                !.amount = 1000,
                                !.network = BITCOIN,
                                !.destinationWallet = BtcAddress,
                                !.webhookUrl = HttpsUrl,
                                !.webhookSecret = "s3cret",
                                !.timestamp = Some(0),
                                !.status = "pending"]]

StoredFailures(cfg) ==
    LET p1 == StoredPayload("payment.pending", "t8")
        p2 == StoredPayload("payment.pending", "t9")
    IN  { EmptyDir,
          writeFile(EmptyDir, FailureName(0, p1),
                    FailureData(HttpsUrl, p1, AxiosError(500), 0, cfg)),
          writeFile(writeFile(EmptyDir, FailureName(0, p1),
                              FailureData(HttpsUrl, p1, AxiosError(500), 0, cfg)),
                    FailureName(0, p2),
                    FailureData(HttpsUrl, p2, AxiosError(0), 0, cfg)) }

InitWebhook ==
    /\ config \in {[enabled |-> e, retryAttempts |-> n, retryDelay |-> RetryDelay,
                    logFailures |-> TRUE, saveFailedWebhooks |-> s] :
                        e \in BOOLEAN, n \in 1..MaxRetryAttempts, s \in BOOLEAN}
    /\ now = 0
    /\ pc = [r \in Reqs |-> "idle"]
    /\ body = [r \in Reqs |-> NoBody]
    /\ req = [r \in Reqs |-> NoRequest]
    /\ caught = [r \in Reqs |-> NULL]
    /\ wh = [r \in Reqs |-> NoHook]
    /\ hooks = [r \in Reqs |-> <<>>]
    /\ log = [r \in Reqs |-> <<>>]
    /\ settleCalls = [r \in Reqs |-> <<>>]
    /\ outcome = [r \in Reqs |-> NoOutcome]
    /\ response = [r \in Reqs |-> NoResponse]
    /\ payment_req = EmptyDir
    /\ payment_sent = EmptyDir
    /\ webhook_failures \in StoredFailures(config)
    /\ reprocess = [r \in Reqs |-> NoReprocess]
    /\ listing = NoListings
    /\ allBalances = NoBalances
    /\ classified = NotClassified

\* the answers the receiver gives to a resent webhook
RetryAnswers == {200, 500}

\* one request is handled at a time
Alone(r) == \A q \in Reqs \ {r} : pc[q] \in {"idle", "responded"}

NextWebhook ==
    \/ \E u \in TestUrls, k \in TestSecrets : Alone("r1") /\ PostWebhookTest("r1", u, k)
    \/ RespondWebhookTest("r1")
    \/ Alone("r2") /\ PostRetryFailed("r2")
    \/ ReprocessResult("r2")
    \/ RespondRetryFailed("r2")
    \/ \E r \in Reqs : WebhookDisabled(r)
    \/ \E status \in WebhookAnswers, diskOk \in BOOLEAN : WebhookAttempt("r1", status, diskOk)
    \/ \E status \in RetryAnswers, diskOk \in BOOLEAN : WebhookAttempt("r2", status, diskOk)
    \/ Tick

SpecWebhook == InitWebhook /\ [][NextWebhook]_vars

----
\* POST /payment with a process that may die at any await of processPayment or
\* inside movePaymentFile, and movePaymentFile run again afterwards

CrashBodies == {DefaultBody, [DefaultBody EXCEPT !.webhookUrl = None]}

NextCrash ==
    \/ \E b \in CrashBodies, diskOk \in BOOLEAN : PostPayment("r1", b, diskOk)
    \/ WebhookDisabled("r1")
    \/ \E status \in PairAnswers, diskOk \in BOOLEAN : WebhookAttempt("r1", status, diskOk)
    \/ Route("r1")
    \/ \E result \in SettleResults : SettleOk("r1", result)
    \/ SettleThrow("r1")
    \/ \E diskOk \in BOOLEAN : MovePaymentFile("r1", diskOk)
    \/ \E diskOk \in BOOLEAN : SavePaymentWithError("r1", diskOk)
    \/ Respond("r1")
    \/ Crash("r1")
    \/ CrashInMove("r1")
    \/ RerunMove("r1")

SpecCrash == Init /\ [][NextCrash]_vars

----
\* --------------------------------------------- server.js GET /pending, GET /sent

\* JSON.parse(fs.readFileSync(filepath, 'utf8')) returns instead of throwing
JSONparses(content) == content # TruncatedFile

JSONparseError == "Unexpected end of JSON input"

\* the body of both listing handlers: readdirSync, files.map(JSON.parse ...)
\* and res.json, all inside one try whose catch answers 500
listPayments(dir) ==
    IF \E f \in DOMAIN dir : ~JSONparses(dir[f])
    THEN [status |-> 500, success |-> FALSE, count |-> 0, payments |-> {},
          message |-> JSONparseError]
    ELSE [status |-> 200, success |-> TRUE, count |-> Cardinality(DOMAIN dir),
          payments |-> {[filename |-> f, data |-> dir[f]] : f \in DOMAIN dir},
          message |-> NULL]

\* GET /pending
GetPending ==
    /\ listing' = [listing EXCEPT !["pending"] = listPayments(payment_req)]
    /\ UNCHANGED <<allBalances, classified, reprocess, config, body, now, pc, req, caught, wh,
                   hooks, log, settleCalls, outcome, response, payment_req, payment_sent,
                   webhook_failures>>

\* GET /sent
GetSent ==
    /\ listing' = [listing EXCEPT !["sent"] = listPayments(payment_sent)]
    /\ UNCHANGED <<allBalances, classified, reprocess, config, body, now, pc, req, caught, wh,
                   hooks, log, settleCalls, outcome, response, payment_req, payment_sent,
                   webhook_failures>>

----
\* ------------------------------------------- PaymentProcessor.getAllBalances

\* a balance as a backend reports it, in satoshis
BalanceValues == {0, 21}

FetchError(k) == "error:" \o k

\* faulty variant of promiseAll, for sensitivity runs: waits for all and ignores rejections
promiseAll_Settled(fetch) ==
    IF \A k \in FetchNames : fetch[k].state \in {"fulfilled", "rejected"}
    THEN "fulfilled" ELSE "pending"

\* Promise.all over the three fetches: rejected as soon as one is rejected,
\* fulfilled when all are fulfilled
promiseAll(fetch) ==
    IF \E k \in FetchNames : fetch[k].state = "rejected" THEN "rejected"
    ELSE IF \A k \in FetchNames : fetch[k].state = "fulfilled" THEN "fulfilled"
    ELSE "pending"

\* the object getAllBalances returns
Snapshot(fetch, at) ==
    [bitcoin |-> fetch[Fetches[1]].value, lightning |-> fetch[Fetches[2]].value,
     liquid |-> fetch[Fetches[3]].value, timestamp |-> Some(at)]

\* getAllBalances up to its await: the three calls of the array are made one
\* after the other without waiting, then Promise.all is awaited
GetAllBalances ==
    /\ allBalances.state = "idle"
    /\ allBalances' = [allBalances EXCEPT
                          !.state = "waiting",
                          !.fetch = [k \in FetchNames |-> [state |-> "pending",
                                                           value |-> None]]]
    /\ UNCHANGED <<listing, classified, reprocess, config, body, now, pc, req, caught, wh,
                   hooks, log, settleCalls, outcome, response, payment_req, payment_sent,
                   webhook_failures>>

\* getAllBalances after fetch k has settled: it resumes when that settles
\* Promise.all, and returns the snapshot or has its catch log and throw the
\* error again
afterSettle(ab, k, settled, at) ==
    LET fetch == [ab.fetch EXCEPT ![k] = settled]
    IN  IF ab.state # "waiting" \/ promiseAll(fetch) = "pending"
        THEN [ab EXCEPT !.fetch = fetch]
        ELSE IF promiseAll(fetch) = "fulfilled"
        THEN [ab EXCEPT !.fetch = fetch, !.state = "returned",
                        !.result = Snapshot(fetch, at)]
        ELSE [ab EXCEPT !.fetch = fetch, !.state = "thrown", !.error = FetchError(k)]

\* the backend of fetch k answers with a balance
FetchResolve(k, v) ==
    /\ allBalances.fetch[k].state = "pending"
    /\ allBalances' = afterSettle(allBalances, k,
                                  [state |-> "fulfilled", value |-> Some(v)], now)
    /\ UNCHANGED <<listing, classified, reprocess, config, body, now, pc, req, caught, wh,
                   hooks, log, settleCalls, outcome, response, payment_req, payment_sent,
                   webhook_failures>>

\* the backend of fetch k answers with an error, or cannot be reached
FetchReject(k) ==
    /\ allBalances.fetch[k].state = "pending"
    /\ allBalances' = afterSettle(allBalances, k,
                                  [state |-> "rejected", value |-> None], now)
    /\ UNCHANGED <<listing, classified, reprocess, config, body, now, pc, req, caught, wh,
                   hooks, log, settleCalls, outcome, response, payment_req, payment_sent,
                   webhook_failures>>

----
\* the read endpoints over directories as earlier requests, and writes cut
\* short, have left them

StoredPending == NewRequest("r1", DefaultBody)

StoredError == [StoredPending EXCEPT !.status = "error", !.error = SettleError,
                                     !.errorAt = Some(0)]

StoredSent == [NewRequest("r2", DefaultBody) EXCEPT
                  !.status = "sent", !.transactionHash = Some("hash-1"),
                  !.completedAt = Some(0), !.networkFee = Some(0)]

\* the files payment_req may hold
ReqFiles ==
    (FileName("", StoredPending) :> StoredPending)
        @@ (FileName("ERROR_", StoredError) :> StoredError)
        @@ (<<"", "id-r3", "tx-cut">> :> TruncatedFile)

\* the files payment_sent may hold
SentFiles ==
    (FileName("", StoredSent) :> StoredSent) @@ (<<"", "id-r4", "tx-cut">> :> TruncatedFile)

Restrict(dir, names) == [f \in names |-> dir[f]]

InitRead ==
    /\ config = [enabled |-> TRUE, retryAttempts |-> RetryAttempts,
                 retryDelay |-> RetryDelay,
                 logFailures |-> TRUE, saveFailedWebhooks |-> TRUE]
    /\ now = 0
    /\ pc = [r \in Reqs |-> "idle"]
    /\ body = [r \in Reqs |-> NoBody]
    /\ req = [r \in Reqs |-> NoRequest]
    /\ caught = [r \in Reqs |-> NULL]
    /\ wh = [r \in Reqs |-> NoHook]
    /\ hooks = [r \in Reqs |-> <<>>]
    /\ log = [r \in Reqs |-> <<>>]
    /\ settleCalls = [r \in Reqs |-> <<>>]
    /\ outcome = [r \in Reqs |-> NoOutcome]
    /\ response = [r \in Reqs |-> NoResponse]
    /\ payment_req \in {Restrict(ReqFiles, names) : names \in SUBSET DOMAIN ReqFiles}
    /\ payment_sent \in {Restrict(SentFiles, names) : names \in SUBSET DOMAIN SentFiles}
    /\ webhook_failures = EmptyDir
    /\ reprocess = [r \in Reqs |-> NoReprocess]
    /\ listing = NoListings
    /\ allBalances = NoBalances
    /\ classified = NotClassified

NextRead ==
    \/ GetPending
    \/ GetSent
    \/ GetAllBalances
    \/ \E k \in FetchNames, v \in BalanceValues : FetchResolve(k, v)
    \/ \E k \in FetchNames : FetchReject(k)

SpecRead == InitRead /\ [][NextRead]_vars

----
\* one payment with a signed webhook under every webhook configuration, with a
\* receiver that answers every POST or lets it run into config.timeout

DeliverBodies == {[DefaultBody EXCEPT !.webhookSecret = "s3cret"]}

InitDeliver ==
    /\ InitWebhook
    /\ webhook_failures = EmptyDir

NextDeliver ==
    \/ \E b \in DeliverBodies : PostPayment("r1", b, TRUE)
    \/ WebhookDisabled("r1")
    \/ \E status \in PairAnswers, diskOk \in BOOLEAN : WebhookAttempt("r1", status, diskOk)
    \/ Route("r1")
    \/ \E result \in SettleResults : SettleOk("r1", result)
    \/ SettleThrow("r1")
    \/ \E diskOk \in BOOLEAN : MovePaymentFile("r1", diskOk)
    \/ \E diskOk \in BOOLEAN : SavePaymentWithError("r1", diskOk)
    \/ Respond("r1")

\* every axios.post ends, with an answer or with the timeout, and the handler
\* goes on when it does
FairDeliver ==
    /\ WF_vars(WebhookDisabled("r1"))
    /\ WF_vars(\E status \in PairAnswers, diskOk \in BOOLEAN :
                   WebhookAttempt("r1", status, diskOk))

SpecDeliver == InitDeliver /\ [][NextDeliver]_vars /\ FairDeliver

----
\* two requests with the same transactionId in flight at once: every
\* interleaving of their suspension points

ConcurrentBodies == {DefaultBody}

\* the receiver acknowledges a POST or does not answer
ConcurrentAnswers == {200, 0}

ConcurrentResults == {[transactionHash |-> "txhash", fee |-> 3]}

NextConcurrent ==
    \E r \in Reqs :
        \/ \E b \in ConcurrentBodies : PostPayment(r, b, TRUE)
        \/ WebhookDisabled(r)
        \/ \E status \in ConcurrentAnswers : WebhookAttempt(r, status, TRUE)
        \/ Route(r)
        \/ \E result \in ConcurrentResults : SettleOk(r, result)
        \/ SettleThrow(r)
        \/ MovePaymentFile(r, TRUE)
        \/ SavePaymentWithError(r, TRUE)
        \/ Respond(r)

SpecConcurrent == InitPair /\ [][NextConcurrent]_vars

----
\* PaymentProcessor.detectAddressType applied to one address out of a sample

\* the strings the sample addresses are put together from: a start, a run of
\* characters around the lengths the patterns accept, and an ending
AddressPrefixes ==
    { <<>>, <<"l","n">>, <<"L","N">>, <<"L","n">>, <<"l">>, <<"n","l">>, <<"1">>, <<"3">>,
      <<"Q">>, <<"b","c","1">>, <<"l","q","1">> }

RunLengths == {24, 25, 34, 35, 39, 40, 59, 60}

AddressBodies ==
    { <<>>, <<"a">>, <<"a","@","b">>, <<"@","b">>, <<"a","@">>, <<"a","@","b","@","c">> }
    \cup {Rep("A", n) : n \in RunLengths} \cup {Rep("q", n) : n \in RunLengths}

AddressSuffixes == { <<>>, <<".","c">>, <<"0">>, <<"l">>, <<"@","d",".","e">> }

Addresses == {p \o b \o s : p \in AddressPrefixes, b \in AddressBodies, s \in AddressSuffixes}

InitClassify ==
    /\ config = [enabled |-> TRUE, retryAttempts |-> RetryAttempts,
                 retryDelay |-> RetryDelay,
                 logFailures |-> TRUE, saveFailedWebhooks |-> TRUE]
    /\ now = 0
    /\ pc = [r \in Reqs |-> "idle"]
    /\ body = [r \in Reqs |-> NoBody]
    /\ req = [r \in Reqs |-> NoRequest]
    /\ caught = [r \in Reqs |-> NULL]
    /\ wh = [r \in Reqs |-> NoHook]
    /\ hooks = [r \in Reqs |-> <<>>]
    /\ log = [r \in Reqs |-> <<>>]
    /\ settleCalls = [r \in Reqs |-> <<>>]
    /\ outcome = [r \in Reqs |-> NoOutcome]
    /\ response = [r \in Reqs |-> NoResponse]
    /\ payment_req = EmptyDir
    /\ payment_sent = EmptyDir
    /\ webhook_failures = EmptyDir
    /\ reprocess = [r \in Reqs |-> NoReprocess]
    /\ listing = NoListings
    /\ allBalances = NoBalances
    /\ classified \in {[address |-> a, type |-> NULL] : a \in Addresses}

\* detectAddressType(address) is called and returns
Classify ==
    /\ classified.type = NULL
    /\ classified' = [classified EXCEPT !.type = detectAddressType(classified.address)]
    /\ UNCHANGED <<listing, allBalances, reprocess, config, now, pc, body, req, caught, wh,
                   hooks, log, settleCalls,
                   outcome, response, payment_req, payment_sent, webhook_failures>>

NextClassify == Classify

SpecClassify == InitClassify /\ [][NextClassify]_vars

----
\* ------------------------------------------------------------- properties

\* in sequence s, every occurrence of an element of B comes after an element of A
Precedes(s, A, B) ==
    \A j \in 1..Len(s) : s[j] \in B => \E i \in 1..(j - 1) : s[i] \in A

Occurs(s, e) == \E i \in 1..Len(s) : s[i] = e

TerminalFire == {"fire:payment.completed", "fire:payment.failed"}
TerminalWrite == {"write:payment_sent", "write:ERROR_"}
SettleEnd == {"done:sendPayment", "throw:sendPayment"}

HasHook(r) == req[r].webhookUrl # None

Finished(r) == pc[r] \in {"finished", "responded"} /\ req[r].status # NULL

C2_StatusChangesOnce ==
    [][\A r \in Reqs : req[r].status \in {"sent", "error"} =>
                          req'[r].status = req[r].status]_vars

SentFieldsSet(rq) ==
    rq.transactionHash # None \/ rq.completedAt # None \/ rq.networkFee # None

ErrorFieldsSet(rq) == rq.error # NULL \/ rq.errorAt # None

FieldsMatchStatus(rq) ==
    /\ rq.status \in {NULL, "pending"} => ~SentFieldsSet(rq) /\ ~ErrorFieldsSet(rq)
    /\ rq.status \in {"sent", "error"} => (SentFieldsSet(rq) /= ErrorFieldsSet(rq))

\* C3 as stated: in memory and in every file written for a request, a pending
\* record has neither sent-fields nor error-fields, and a terminal record has
\* exactly one of the two groups
C3_OneFieldGroup ==
    /\ \A r \in Reqs : FieldsMatchStatus(req[r])
    /\ \A f \in DOMAIN payment_req : FieldsMatchStatus(payment_req[f])
    /\ \A f \in DOMAIN payment_sent : FieldsMatchStatus(payment_sent[f])

\* C4: a backend's sendPayment is called at most once per request, and once a
\* settlement call has thrown no further call is made and the status is error
C4_NoSettlementRetry ==
    \A r \in Reqs :
        /\ Len(settleCalls[r]) <= 1
        /\ Cardinality({i \in 1..Len(log[r]) : log[r][i] = "call:sendPayment"})
              = Len(settleCalls[r])
        /\ Occurs(log[r], "throw:sendPayment") =>
              /\ Len(settleCalls[r]) = 1
              /\ req[r].status = "error"
              /\ pc[r] \notin {"route", "settling"}

\* C4 witness: processPayment has finished for a request whose settlement call threw
C4_Witness ==
    \E r \in Reqs : pc[r] = "finished" /\ Occurs(log[r], "throw:sendPayment")

HookEvents == {"fire:payment.pending", "done:payment.pending",
               "fire:payment.completed", "done:payment.completed",
               "fire:payment.failed", "done:payment.failed"}

IsNotHookEvent(e) == e \notin HookEvents

\* the settlement and file-write events of a request, in order
NonHookLog(r) == SelectSeq(log[r], IsNotHookEvent)

\* C5: two requests with the same body, the same settlement outcome and the
\* same file-write outcomes end with the same result and the same status,
\* whatever the webhook receiver did for each; and a payment.pending webhook
\* that was not delivered does not keep the settlement call from being made
C5_WebhookIndependence ==
    /\ \A a, b \in Reqs :
          ( /\ Finished(a) /\ Finished(b)
            /\ body[a] = body[b]
            /\ settleCalls[a] = settleCalls[b]
            /\ NonHookLog(a) = NonHookLog(b) )
          => /\ outcome[a] = outcome[b]
             /\ req[a].status = req[b].status
    /\ \A r \in Reqs :
          ( /\ Len(hooks[r]) >= 1
            /\ hooks[r][1].event = "payment.pending"
            /\ ~hooks[r][1].delivered
            /\ pc[r] # "route" )
          => /\ Len(settleCalls[r]) = 1
             /\ Occurs(log[r], "call:sendPayment")

\* C5 witness: two finished requests with the same settlement and file-write
\* outcomes, one whose webhooks were all delivered and one whose webhooks all
\* failed, both returned the transaction
C5_Witness ==
    /\ Finished("r1") /\ Finished("r2")
    /\ NonHookLog("r1") = NonHookLog("r2")
    /\ settleCalls["r1"] = settleCalls["r2"]
    /\ outcome["r1"].kind = "return"
    /\ \A i \in 1..Len(hooks["r1"]) : hooks["r1"][i].delivered /\ hooks["r1"][i].attempts = 1
    /\ \A i \in 1..Len(hooks["r2"]) : ~hooks["r2"][i].delivered
    /\ Len(hooks["r1"]) = 2 /\ Len(hooks["r2"]) = 2

\* C6 as stated: when the settlement call throws E, processPayment throws that
\* same E, after the payment.failed webhook call and the ERROR_ file write
C6_RethrowsSettlementError ==
    \A r \in Reqs :
        (pc[r] \in {"finished", "responded"} /\ Occurs(log[r], "throw:sendPayment")) =>
            /\ outcome[r].kind = "throw"
            /\ outcome[r].error = SettleError
            /\ HasHook(r) => Occurs(log[r], "done:payment.failed")
            /\ Occurs(log[r], "write:ERROR_") \/ Occurs(log[r], "throw:ERROR_")

\* a payment.completed webhook of request r was posted and acknowledged
CompletedDelivered(r) ==
    \E i \in 1..Len(hooks[r]) :
        /\ hooks[r][i].event = "payment.completed"
        /\ hooks[r][i].delivered
        /\ hooks[r][i].attempts >= 1

\* C7 as stated: when the payment_sent write fails, processPayment throws, the
\* gateway does not answer success, and no payment.completed notification was
\* delivered
C7_SentWriteFailureIsHard ==
    \A r \in Reqs :
        Occurs(log[r], "throw:payment_sent") =>
            /\ pc[r] \in {"finished", "responded"} => outcome[r].kind = "throw"
            /\ pc[r] = "responded" => response[r].status # 200 /\ ~response[r].success
            /\ ~CompletedDelivered(r)

\* n spells word, in any mix of upper and lower case
SameWord(n, word) ==
    /\ Len(n) = Len(word)
    /\ \A i \in 1..Len(word) :
          \E k \in 1..Len(LowerSeq) :
              word[i] = LowerSeq[k] /\ n[i] \in {LowerSeq[k], UpperSeq[k]}

\* C8: the backend is chosen from the declared network alone, whatever its
\* case: bitcoin and lightning call the LND client, liquid calls the Liquid
\* client, each with the request's destinationWallet and amount
C8_RoutesByDeclaredNetwork ==
    \A r \in Reqs :
        /\ pc[r] = "settling" => Len(settleCalls[r]) = 1
        /\ \A i \in 1..Len(settleCalls[r]) :
              LET c == settleCalls[r][i]
              IN  /\ c.destination = body[r].destinationWallet
                  /\ c.amount = req[r].amount
                  /\ (SameWord(body[r].network, BITCOIN) \/ SameWord(body[r].network, LIGHTNING))
                        => c.backend = "lightningRPC"
                  /\ SameWord(body[r].network, LIQUID) => c.backend = "liquidRPC"

\* C8 witness: a request declared LIQUID in capitals for a bolt11 invoice was
\* sent to the Liquid client
C8_Witness ==
    \E r \in Reqs :
        /\ body[r].network = <<"L","I","Q","U","I","D">>
        /\ body[r].destinationWallet = LnInvoice
        /\ Len(settleCalls[r]) = 1
        /\ settleCalls[r][1].backend = "liquidRPC"

\* C9 as stated: a Lightning-style destination is sent to the LND client for
\* every declared network
C9_LightningAlwaysToLnd ==
    \A r \in Reqs : \A i \in 1..Len(settleCalls[r]) :
        detectAddressType(settleCalls[r][i].destination) = "lightning"
            => settleCalls[r][i].backend = "lightningRPC"

\* C9 amended: a Lightning-style destination is sent to the LND client exactly
\* when the declared network is bitcoin or lightning, and to the Liquid client
\* exactly when it is liquid
C9_LightningFollowsNetwork ==
    \A r \in Reqs : \A i \in 1..Len(settleCalls[r]) :
        detectAddressType(settleCalls[r][i].destination) = "lightning" =>
            /\ settleCalls[r][i].backend = "lightningRPC"
                  <=> req[r].network \in {BITCOIN, LIGHTNING}
            /\ settleCalls[r][i].backend = "liquidRPC" <=> req[r].network = LIQUID

\* C9 witness: a Lightning address declared liquid was sent to the Liquid client
C9_Witness ==
    \E r \in Reqs :
        /\ req[r].network = LIQUID
        /\ req[r].destinationWallet = LnAddress
        /\ Len(settleCalls[r]) = 1
        /\ settleCalls[r][1].backend = "liquidRPC"

\* C10 as stated: the LND client takes its Lightning path exactly when
\* detectAddressType calls the destination lightning
C10_LndAgreesWithClassifier ==
    \A r \in Reqs : \A i \in 1..Len(settleCalls[r]) :
        settleCalls[r][i].backend = "lightningRPC" =>
            ( settleCalls[r][i].path # "sendCoins"
                <=> detectAddressType(settleCalls[r][i].destination) = "lightning" )

----
\* detectAddressType

\* the address has been classified
Classified == classified.type # NULL

\* the address starts with 'ln', compared without regard to case
HasInvoicePrefix(a) ==
    /\ Len(a) >= 2
    /\ a[1] \in {"l", "L"}
    /\ a[2] \in {"n", "N"}

\* the positions of '@' in the address
AtPositions(a) == {i \in 1..Len(a) : a[i] = "@"}

\* the address holds exactly one '@' and a '.' somewhere after it
OneAtThenDot(a) ==
    /\ Cardinality(AtPositions(a)) = 1
    /\ \E i \in AtPositions(a) : \E j \in (i + 1)..Len(a) : a[j] = "."

\* C11: every destination that starts with 'ln', compared case-insensitively, is
\* tagged lightning whatever follows the prefix
C11_InvoicePrefixWins ==
    (Classified /\ HasInvoicePrefix(classified.address)) => classified.type = "lightning"

\* an upper-case invoice prefix followed by text with an '@' has been classified
C11_Witness ==
    /\ Classified
    /\ classified.address = <<"L","N","a","@","b","@","c">>

\* C12 as stated: without the 'ln' prefix, exactly one '@' with a '.' after it
\* gives lightning, and anything else does not give lightning
C12_AliasRule ==
    (Classified /\ ~HasInvoicePrefix(classified.address)) =>
        (classified.type = "lightning" <=> OneAtThenDot(classified.address))

\* C12: without the 'ln' prefix, the tag is lightning exactly when the address
\* holds one '@', a non-empty part before it and a '.' after it
C12_AliasRuleNonEmptyUser ==
    (Classified /\ ~HasInvoicePrefix(classified.address)) =>
        ( classified.type = "lightning"
            <=> (OneAtThenDot(classified.address) /\ classified.address[1] # "@") )

\* user@domain.tld has been classified, and so has @domain.tld
C12_Witness ==
    /\ Classified
    /\ classified.address \in {<<"a","@","b",".","c">>, <<"@","b",".","c">>}

\* /^[13][a-km-zA-HJ-NP-Z1-9]{25,34}$/ or /^bc1[a-zA-HJ-NP-Z0-9]{39,59}$/
BitcoinShape(a) ==
    \/ /\ Len(a) \in 26..35
       /\ a[1] \in {"1", "3"}
       /\ \A i \in 2..Len(a) : a[i] \in Base58Class
    \/ /\ Len(a) \in 42..62
       /\ SubSeq(a, 1, 3) = <<"b","c","1">>
       /\ \A i \in 4..Len(a) : a[i] \in Bech32Class

\* /^[2-9A-HJ-NP-Z][1-9A-HJ-NP-Za-km-z]{25,39}$/ or /^lq1[a-zA-HJ-NP-Z0-9]{39,59}$/
LiquidShape(a) ==
    \/ /\ Len(a) \in 26..40
       /\ a[1] \in LiquidFirstClass
       /\ \A i \in 2..Len(a) : a[i] \in Base58Class
    \/ /\ Len(a) \in 42..62
       /\ SubSeq(a, 1, 3) = <<"l","q","1">>
       /\ \A i \in 4..Len(a) : a[i] \in Bech32Class

\* the alias rule of the classifier
AliasShape(a) == OneAtThenDot(a) /\ a[1] # "@"

\* C13: detectAddressType returns one of the four tags, the first rule that
\* matches decides (invoice prefix, alias, Bitcoin shapes, Liquid shapes), a
\* Bitcoin shape is tagged bitcoin even when it is a Liquid shape too, and an
\* address that matches no rule is tagged unknown
C13_TotalOrderedRules ==
    Classified =>
        LET a == classified.address
        IN  /\ classified.type \in {"lightning", "bitcoin", "liquid", "unknown"}
            /\ BitcoinShape(a) => classified.type = "bitcoin"
            /\ classified.type =
                 (CASE HasInvoicePrefix(a) -> "lightning"
                    [] ~HasInvoicePrefix(a) /\ AliasShape(a) -> "lightning"
                    [] ~HasInvoicePrefix(a) /\ ~AliasShape(a) /\ BitcoinShape(a) -> "bitcoin"
                    [] ~HasInvoicePrefix(a) /\ ~AliasShape(a) /\ ~BitcoinShape(a)
                        /\ LiquidShape(a) -> "liquid"
                    [] OTHER -> "unknown")

\* an address that is both a Bitcoin shape and a Liquid shape has been
\* classified, and so has one that matches no rule
C13_Witness ==
    /\ Classified
    /\ \/ BitcoinShape(classified.address) /\ LiquidShape(classified.address)
       \/ classified.address = <<"1">> \o Rep("A", 24)

----
\* WebhookManager.sendWebhook

\* every sendWebhook call that has returned, of any request
ReturnedCalls == UNION {{hooks[r][i] : i \in 1..Len(hooks[r])} : r \in Reqs}

\* a step in which a sendWebhook call of request r returns undelivered after
\* HTTP attempts
ReturnsUndelivered(r) ==
    /\ Len(hooks'[r]) = Len(hooks[r]) + 1
    /\ ~hooks'[r][Len(hooks'[r])].delivered
    /\ hooks'[r][Len(hooks'[r])].attempts >= 1

\* the names of the failure files the step adds
AddedFailures == DOMAIN webhook_failures' \ DOMAIN webhook_failures

\* the failure files that were there are left as they were
OldFailuresKept ==
    \A f \in DOMAIN webhook_failures :
        f \in DOMAIN webhook_failures' /\ webhook_failures'[f] = webhook_failures[f]

\* file f holds a complete record of the call of request r that is returning
RecordsCall(r, f) ==
    LET record == webhook_failures'[f]
    IN  /\ record.webhookUrl = wh[r].url
        /\ record.payload.event = wh[r].event
        /\ record.payload.data = wh[r].data
        /\ record.error \in {AxiosError(status) : status \in WebhookAnswers}
        /\ record.failedAt = now
        /\ record.attempts = 1 + config.retryAttempts

C17_Only2xxIsSuccess ==
    /\ \A e \in ReturnedCalls :
          e.attempts >= 1 =>
              /\ e.delivered <=> e.status[1] \in 200..299
              /\ ~e.delivered => e.attempts = 1 + config.retryAttempts
    /\ \A r \in Reqs :
          wh[r].status # None =>
              /\ wh[r].status[1] \notin 200..299
              /\ wh[r].attempt = Len(wh[r].posts)
              /\ wh[r].attempt <= config.retryAttempts

\* an attempt answered with a status just outside 200..299 has been counted
\* as failed and the call is waiting to try again
C17_Witness ==
    \E r \in Reqs : wh[r].status \in {Some(199), Some(300)} /\ wh[r].attempt = 1

\* every HTTP attempt made so far, with the secret of its call
SentPosts ==
    UNION {{[secret |-> e.secret, post |-> e.posts[i], first |-> e.posts[1]] :
                i \in 1..Len(e.posts)} : e \in ReturnedCalls}
    \cup UNION {{[secret |-> wh[r].secret, post |-> wh[r].posts[i], first |-> wh[r].posts[1]] :
                i \in 1..Len(wh[r].posts)} : r \in Reqs}

\* C18: every attempt carries X-Webhook-Timestamp; it carries
\* X-Webhook-Signature and X-Webhook-Signature-256 exactly when a secret was
\* given, both with the same 'sha256=...' value; and the headers are the same
\* for all attempts of one call
C18_HeadersOfEveryAttempt ==
    \A p \in SentPosts :
        /\ p.post.headers.timestamp # None
        /\ p.post.headers.signature # None <=> p.secret \notin {NULL, ""}
        /\ p.post.headers.signature256 # None <=> p.secret \notin {NULL, ""}
        /\ p.post.headers.signature256 = p.post.headers.signature
        /\ p.post.headers.signature # None => p.post.headers.signature[1][1] = "sha256="
        /\ p.post.headers = p.first.headers

\* a signed call and an unsigned call have each made a second attempt
C18_Witness ==
    /\ \E e \in ReturnedCalls : e.attempts >= 2 /\ e.secret = "s3cret"
    /\ \E e \in ReturnedCalls : e.attempts >= 2 /\ e.secret = NULL

\* the digest a receiver computes over the body it got, with the secret
ReceiverSignature(requestBody, secret) == <<"hmac-sha256", secret, requestBody>>

----
\* WebhookManager.reprocessFailedWebhooks

C21_ResendIsSigned ==
    \A r \in Reqs : \A x \in reprocess[r].results :
        LET record == reprocess[r].started[x[1]]
            resend == hooks[r][x[2]]
        IN  (record.payload.data.webhookSecret \notin {NULL, ""} /\ resend.attempts >= 1) =>
                \A i \in 1..Len(resend.posts) :
                    /\ resend.posts[i].headers.signature # None
                    /\ resend.posts[i].headers.signature[1][2] =
                          ReceiverSignature(resend.posts[i].body,
                                            record.payload.data.webhookSecret)

----
\* POST /payment and the request files

\* a step in which POST /payment of request r is taken up with a body that
\* passes the validations
TakesUpValid(r) ==
    /\ pc[r] = "idle"
    /\ pc'[r] # "idle"
    /\ body'[r] # NoBody
    /\ body'[r].transactionId # NULL /\ body'[r].username # NULL /\ body'[r].amount # 0
    /\ toLowerCase(body'[r].network) \in {BITCOIN, LIGHTNING, LIQUID}
    /\ body'[r].destinationWallet # <<>>
    /\ body'[r].webhookUrl # None => body'[r].webhookUrl[1] \in {"http:", "https:"}

\* C22: a new request is in payment_req under {id}_{transactionId}.json with
\* status pending when processPayment is called; when that write fails the
\* caller gets an error response and there is no webhook and no settlement call
C22_SavedBeforeProcessing ==
    [][\A r \in Reqs : TakesUpValid(r) =>
            \/ /\ pc'[r] \in {"pendingHook", "route"}
               /\ <<"", req'[r].id, req'[r].transactionId>> \in DOMAIN payment_req'
               /\ payment_req'[<<"", req'[r].id, req'[r].transactionId>>] = req'[r]
               /\ req'[r].status = "pending"
               /\ settleCalls'[r] = <<>>
            \/ /\ pc'[r] = "responded"
               /\ response'[r].status = 500
               /\ ~response'[r].success
               /\ payment_req' = payment_req
               /\ wh'[r] = NoHook /\ hooks'[r] = <<>> /\ log'[r] = <<>>
               /\ settleCalls'[r] = <<>>]_vars

\* a request whose payment_req write failed has been answered
C22_Witness ==
    \E r \in Reqs :
        /\ response[r].status = 500
        /\ response[r].message = WriteReqError
        /\ payment_req = EmptyDir

\* request r has been saved by POST /payment
Saved(r) == req[r].id # NULL

\* the key {id}_{transactionId}.json of request r
Key(r) == <<"", req[r].id, req[r].transactionId>>

\* C23: from the initial save on, whatever step processPayment is at and
\* wherever the process died, the request's record is in payment_req or in
\* payment_sent; movePaymentFile writes payment_sent before it deletes from
\* payment_req, so a crash between the two leaves the record in both
C23_RecordNeverLost ==
    \A r \in Reqs :
        Saved(r) =>
            /\ Key(r) \in DOMAIN payment_req \/ Key(r) \in DOMAIN payment_sent
            /\ pc[r] = "crashedInMove" =>
                  /\ Key(r) \in DOMAIN payment_req
                  /\ Key(r) \in DOMAIN payment_sent
                  /\ payment_sent[Key(r)] = req[r]

\* the process has died between the write and the delete of movePaymentFile
C23_Witness == \E r \in Reqs : Saved(r) /\ pc[r] = "crashedInMove"

\* C24: movePaymentFile run again, after a crash between its write and its
\* delete or after a complete run, leaves one copy of the record, in
\* payment_sent, none in payment_req, and causes no settlement call and no
\* webhook
C24_MoveIsIdempotent ==
    [][\A r \in Reqs : pc'[r] = "movedAgain" =>
            /\ Key(r) \in DOMAIN payment_sent'
            /\ Key(r) \notin DOMAIN payment_req'
            /\ payment_sent'[Key(r)] = payment_sent[Key(r)]
            /\ DOMAIN payment_sent' = DOMAIN payment_sent
            /\ settleCalls' = settleCalls
            /\ hooks' = hooks /\ wh' = wh /\ log' = log
            /\ webhook_failures' = webhook_failures]_vars

\* movePaymentFile has been run again after a crash that left both copies
C24_Witness ==
    \E r \in Reqs :
        /\ pc[r] = "movedAgain"
        /\ Key(r) \in DOMAIN payment_sent
        /\ Key(r) \notin DOMAIN payment_req
        /\ ~Occurs(log[r], "write:payment_sent")

\* savePaymentWithError has just written the error file of request r
WritesErrorFile(r) == log'[r] = Append(log[r], "write:ERROR_")

\* C25: savePaymentWithError adds ERROR_{id}_{transactionId}.json, holding the
\* failed record, to payment_req and changes nothing else: the original file
\* stays there as first saved (status pending, no error) and payment_sent is
\* as it was
C25_ErrorFileIsTheOnlyChange ==
    [][\A r \in Reqs : WritesErrorFile(r) =>
            /\ DOMAIN payment_req' = DOMAIN payment_req \cup {<<"ERROR_", req[r].id, req[r].transactionId>>}
            /\ \A f \in DOMAIN payment_req : payment_req'[f] = payment_req[f]
            /\ payment_req'[<<"ERROR_", req[r].id, req[r].transactionId>>] = req[r]
            /\ req[r].status = "error" /\ req[r].error # NULL
            /\ Key(r) \in DOMAIN payment_req'
            /\ payment_req'[Key(r)].status = "pending"
            /\ payment_req'[Key(r)].error = NULL
            /\ payment_sent' = payment_sent
            /\ webhook_failures' = webhook_failures
            /\ req' = req]_vars

\* a failed payment has left its error file next to its original file
C25_Witness ==
    \E r \in Reqs :
        /\ Occurs(log[r], "write:ERROR_")
        /\ <<"ERROR_", req[r].id, req[r].transactionId>> \in DOMAIN payment_req
        /\ Key(r) \in DOMAIN payment_req
        /\ payment_req[Key(r)].status = "pending"

\* the directory a listing endpoint reads
ListedDir(e) == IF e = "pending" THEN payment_req ELSE payment_sent

\* C26: a listing that has answered returned every parseable record of its
\* directory, whether or not the directory also holds a file that is not JSON
C26_ListingReturnsParseableRecords ==
    \A e \in Listings :
        listing[e] # NoListing =>
            listing[e].payments =
                {[filename |-> f, data |-> ListedDir(e)[f]] :
                    f \in {g \in DOMAIN ListedDir(e) : JSONparses(ListedDir(e)[g])}}

\* C27: getAllBalances starts its three fetches together; it returns a
\* snapshot only when all three were fulfilled, holding their three values,
\* and once any fetch is rejected, in whatever order the fetches settle, it has
\* thrown and no snapshot, partial or whole, has been returned
C27_AllOrNothing ==
    /\ allBalances.state # "idle" =>
          \A k \in FetchNames : allBalances.fetch[k].state # "notStarted"
    /\ allBalances.state = "returned" =>
          /\ \A k \in FetchNames : allBalances.fetch[k].state = "fulfilled"
          /\ allBalances.result = Snapshot(allBalances.fetch, now)
          /\ allBalances.result.bitcoin # None
          /\ allBalances.result.lightning # None
          /\ allBalances.result.liquid # None
    /\ (\E k \in FetchNames : allBalances.fetch[k].state = "rejected") =>
          /\ allBalances.state = "thrown"
          /\ allBalances.error # NULL
    /\ allBalances.state # "returned" => allBalances.result = NoSnapshot

\* the last fetch to settle was rejected after the two others were fulfilled
C27_Witness ==
    /\ allBalances.state = "thrown"
    /\ Cardinality({k \in FetchNames : allBalances.fetch[k].state = "fulfilled"}) = 2
    /\ Cardinality({k \in FetchNames : allBalances.fetch[k].state = "rejected"}) = 1

\* the body misses a required field
MissesField(b) ==
    \/ b.transactionId = NULL \/ b.username = NULL \/ b.amount = 0
    \/ b.network = <<>> \/ b.destinationWallet = <<>>

\* the body names a network other than bitcoin, lightning and liquid
NamesOtherNetwork(b) ==
    /\ b.network # <<>>
    /\ b.network = NonString \/ toLowerCase(b.network) \notin {BITCOIN, LIGHTNING, LIQUID}

\* the body carries a webhookUrl whose scheme is neither http nor https
HasOtherScheme(b) == b.webhookUrl # None /\ b.webhookUrl[1] \notin {"http:", "https:"}

\* C28: a POST /payment whose body misses a required field, names another
\* network or carries a webhookUrl of another scheme is answered 400 and has
\* no other effect: no request object, no file, no processPayment step, no
\* webhook, no settlement call
C28_InvalidBodyIsAnswered400 ==
    \A r \in Reqs :
        (pc[r] # "idle" /\ body[r] # NoBody
            /\ (MissesField(body[r]) \/ NamesOtherNetwork(body[r]) \/ HasOtherScheme(body[r]))) =>
            /\ response[r].status = 400
            /\ pc[r] = "responded"
            /\ req[r] = NoRequest
            /\ payment_req = EmptyDir /\ payment_sent = EmptyDir
            /\ log[r] = <<>> /\ hooks[r] = <<>> /\ wh[r] = NoHook
            /\ settleCalls[r] = <<>>

\* C29: the amount of every request that was persisted or handed to
\* processPayment is a non-negative integer equal to the submitted amount
\* (bodies give amounts in tenths), so nothing was truncated on the way
C29_AmountIsNonNegativeInteger ==
    \A r \in Reqs :
        Saved(r) => req[r].amount >= 0 /\ req[r].amount * 10 = body[r].amount

\* request r was submitted with a body that passes the validations and has no
\* webhookUrl, its settlement call has succeeded and processPayment has ended
SettledWithoutWebhook(r) ==
    /\ pc[r] \in {"finished", "responded"}
    /\ body[r] # NoBody
    /\ ~MissesField(body[r]) /\ ~NamesOtherNetwork(body[r])
    /\ body[r].webhookUrl = None
    /\ \E i \in 1..Len(settleCalls[r]) : settleCalls[r][i].result # None

\* C30: for a valid request without webhookUrl whose settlement call
\* succeeded, the backend was called once with the destination and amount
\* submitted, no webhook was sent, the record ends with status sent and its
\* transactionHash, completedAt and networkFee, its file is in payment_sent and
\* not in payment_req, and the caller is answered success with the hash
C30_SettledRequestEndsSent ==
    \A r \in Reqs :
        SettledWithoutWebhook(r) =>
            /\ Len(settleCalls[r]) = 1
            /\ settleCalls[r][1].destination = body[r].destinationWallet
            /\ settleCalls[r][1].amount * 10 = body[r].amount
            /\ hooks[r] = <<>> /\ wh[r] = NoHook
            /\ req[r].status = "sent"
            /\ req[r].transactionHash # None
            /\ req[r].completedAt # None
            /\ req[r].networkFee # None
            /\ Key(r) \in DOMAIN payment_sent
            /\ Key(r) \notin DOMAIN payment_req
            /\ pc[r] = "responded" =>
                  /\ response[r].status = 200
                  /\ response[r].success
                  /\ response[r].transactionHash = req[r].transactionHash

\* the events of the sendWebhook calls made for request r, in order
EventsOf(r) == [i \in 1..Len(hooks[r]) |-> hooks[r][i].event]

\* processPayment has ended for request r, which names a webhookUrl and whose
\* settlement call threw
FailedWithWebhook(r) ==
    /\ pc[r] \in {"finished", "responded"}
    /\ HasHook(r)
    /\ Occurs(log[r], "throw:sendPayment")

\* the key ERROR_{id}_{transactionId}.json of request r
ErrorKey(r) == <<"ERROR_", req[r].id, req[r].transactionId>>

Acknowledged(e) ==
    /\ e.delivered
    /\ e.attempts >= 1
    /\ e.status # None
    /\ e.status[1] >= 200 /\ e.status[1] < 300

\* webhook_failures holds a failure record of the call kept as entry e
Recorded(e) ==
    \E f \in DOMAIN webhook_failures :
        /\ webhook_failures[f].payload.event = e.event
        /\ webhook_failures[f].attempts = e.attempts

Accounted(e) ==
    /\ ~config.enabled => e.attempts = 0 /\ e.delivered /\ e.saved = None
    /\ config.enabled =>
          /\ e.attempts >= 1
          /\ e.delivered => Acknowledged(e) /\ e.saved = None
          /\ ~e.delivered =>
                /\ e.attempts = 1 + config.retryAttempts
                /\ ~config.saveFailedWebhooks => e.saved = None
                /\ e.saved # None =>
                      /\ e.saved[1] \in DOMAIN webhook_failures
                      /\ webhook_failures[e.saved[1]].payload.event = e.event
                      /\ Recorded(e)

C33_OwnFailureFile ==
    [][\A r \in Reqs :
            (ReturnsUndelivered(r) /\ hooks'[r][Len(hooks'[r])].saved # None) =>
                /\ hooks'[r][Len(hooks'[r])].saved[1] \notin DOMAIN webhook_failures
                /\ OldFailuresKept]_vars

\* the step is not one of request r's handler
Idle(r) == pc'[r] = pc[r] /\ wh'[r] = wh[r]

\* the files of directory dir that carry the id of request r
FilesOf(r, dir) == {f \in DOMAIN dir : f[2] = "id-" \o r}

\* the files of request r in directory dir are after the step what they were
SameFiles(r, dir, dirAfter) ==
    /\ FilesOf(r, dirAfter) = FilesOf(r, dir)
    /\ \A f \in FilesOf(r, dir) : dirAfter[f] = dir[f]

\* the record POST /payment first saved for request r
FirstSaved(r) == [NewRequest(r, body[r]) EXCEPT !.timestamp = req[r].timestamp]

\* request r has ended as its own settlement result alone decides
EndsAsAlone(r) ==
    IF Occurs(log[r], "done:sendPayment")
    THEN /\ req[r] = [FirstSaved(r) EXCEPT
                         !.status = "sent",
                         !.transactionHash = Some(settleCalls[r][1].result[1].transactionHash),
                         !.completedAt = req[r].completedAt,
                         !.networkFee = Some(orZero(settleCalls[r][1].result[1].fee))]
         /\ FilesOf(r, payment_sent) = {Key(r)}
         /\ payment_sent[Key(r)] = req[r]
         /\ FilesOf(r, payment_req) = {}
         /\ outcome[r].kind = "return"
    ELSE /\ req[r] = [FirstSaved(r) EXCEPT !.status = "error", !.error = SettleError,
                                           !.errorAt = req[r].errorAt]
         /\ FilesOf(r, payment_sent) = {}
         /\ FilesOf(r, payment_req) = {Key(r), ErrorKey(r)}
         /\ payment_req[Key(r)] = FirstSaved(r)
         /\ payment_req[ErrorKey(r)] = req[r]
         /\ outcome[r].kind = "throw"

\* a step of one request leaves the other's request object, calls, results
\* and payment files as they were
LeavesOthersAlone ==
    \A r \in Reqs : Idle(r) =>
        /\ req'[r] = req[r] /\ body'[r] = body[r] /\ caught'[r] = caught[r]
        /\ hooks'[r] = hooks[r] /\ log'[r] = log[r]
        /\ settleCalls'[r] = settleCalls[r]
        /\ outcome'[r] = outcome[r] /\ response'[r] = response[r]
        /\ SameFiles(r, payment_req, payment_req')
        /\ SameFiles(r, payment_sent, payment_sent')

\* every file written for request r is still there and holds r's data: its
\* payment files carry its id, and each failure record written for one of its
\* deliveries is the record of that delivery
OwnFiles(r) ==
    /\ \A f \in FilesOf(r, payment_req) \cup FilesOf(r, payment_sent) : Saved(r)
    /\ \A i \in 1..Len(hooks[r]) :
          hooks[r][i].saved # None =>
              /\ hooks[r][i].saved[1] \in DOMAIN webhook_failures
              /\ webhook_failures[hooks[r][i].saved[1]].payload.data.id = req[r].id
              /\ webhook_failures[hooks[r][i].saved[1]].payload.event = hooks[r][i].event

\* C34: two requests in flight at once share nothing but the directories: a
\* step of one request leaves the other's request object, calls, results and
\* files as they were, each request writes files of its own only, and each
\* request ends with the status, record and files that its own settlement
\* result decides, as it would when processed alone
C34_RequestsDoNotInterfere ==
    /\ [][LeavesOthersAlone]_vars
    /\ [](\A r \in Reqs : Finished(r) => EndsAsAlone(r))
    /\ [](\A r \in Reqs : OwnFiles(r))

\* the same without the failure records: the request objects and the files
\* of payment_req and payment_sent
PaymentFilesDoNotInterfere ==
    /\ [][LeavesOthersAlone]_vars
    /\ [](\A r \in Reqs : Finished(r) => EndsAsAlone(r))
    /\ [](\A f \in DOMAIN payment_req \cup DOMAIN payment_sent :
              \E r \in Reqs : Saved(r) /\ f[2] = req[r].id)

\* the fields of a request record that are set at ingestion
Ingested(rq) ==
    [id |-> rq.id, transactionId |-> rq.transactionId, username |-> rq.username,
     amount |-> rq.amount, network |-> rq.network,
     destinationWallet |-> rq.destinationWallet, webhookUrl |-> rq.webhookUrl,
     webhookSecret |-> rq.webhookSecret, timestamp |-> rq.timestamp]

\* the `data` member of every webhook body posted for request r so far
PostedData(r) ==
    UNION {{hooks[r][i].posts[j].body[6] : j \in 1..Len(hooks[r][i].posts)} :
              i \in 1..Len(hooks[r])}
    \cup {wh[r].posts[j].body[6] : j \in 1..Len(wh[r].posts)}

\* the records written for request r that are on disk
WrittenRecords(r) ==
    {payment_req[f] : f \in FilesOf(r, payment_req)}
    \cup {payment_sent[f] : f \in FilesOf(r, payment_sent)}
    \cup {webhook_failures[f].payload.data :
            f \in {g \in DOMAIN webhook_failures :
                      webhook_failures[g].payload.data.id = "id-" \o r}}

\* C35: processPayment changes the lifecycle fields only: id, transactionId,
\* username, amount, network, destinationWallet, webhookUrl, webhookSecret and
\* timestamp of the request object stay what POST /payment set them to, and
\* every file written for the request and every webhook payload posted for it
\* carries these values
C35_IngestedFieldsAreKept ==
    /\ [][\A r \in Reqs : Saved(r) => Ingested(req'[r]) = Ingested(req[r])]_vars
    /\ [](\A r \in Reqs : Saved(r) =>
              /\ Ingested(req[r]) = Ingested(FirstSaved(r))
              /\ \A rq \in WrittenRecords(r) \cup PostedData(r) :
                    Ingested(rq) = Ingested(req[r]))

\* a payment with a webhook has been settled, notified and moved to payment_sent
C35_Witness ==
    \E r \in Reqs :
        /\ Finished(r) /\ req[r].status = "sent"
        /\ Cardinality(PostedData(r)) >= 2
        /\ Key(r) \in DOMAIN payment_sent

\* C36: no request is notified both payment.completed and payment.failed,
\* whatever the settlement, the webhooks and the file writes do
C36_OneTerminalEvent ==
    \A r \in Reqs :
        ~(Occurs(EventsOf(r), "payment.completed") /\ Occurs(EventsOf(r), "payment.failed"))

\* C37: once processPayment has ended, the request's key is in payment_sent
\* exactly when processPayment returned, its ERROR_ file is in payment_req
\* exactly when processPayment threw, and no request has both
C37_FilesTellTheOutcome ==
    \A r \in Reqs :
        Finished(r) =>
            /\ Key(r) \in DOMAIN payment_sent <=> outcome[r].kind = "return"
            /\ ErrorKey(r) \in DOMAIN payment_req <=> outcome[r].kind = "throw"
            /\ ~(Key(r) \in DOMAIN payment_sent /\ ErrorKey(r) \in DOMAIN payment_req)

\* C38: a run of reprocessFailedWebhooks adds no failure record: no step of the
\* run creates a file in webhook_failures, and when the run has returned there
\* are no more records than when it started
C38_ReprocessAddsNoRecord ==
    /\ [][\A r \in Reqs : pc[r] \in {"retryHook", "retryResult"} =>
              DOMAIN webhook_failures' \subseteq DOMAIN webhook_failures]_vars
    /\ [](\A r \in Reqs : pc[r] = "retryDone" =>
              Cardinality(DOMAIN webhook_failures)
                  <= Cardinality(DOMAIN reprocess[r].started))

\* C39: a failure record is removed from webhook_failures only by the run that
\* has just resent it, and only after an HTTP POST of that resend was answered
\* with a 2xx status, under every webhook configuration
C39_DeletedOnlyAfter2xx ==
    [][\A f \in DOMAIN webhook_failures \ DOMAIN webhook_failures' :
            \E r \in Reqs :
                /\ pc[r] = "retryResult"
                /\ reprocess[r].file = Some(f)
                /\ Acknowledged(hooks[r][Len(hooks[r])])]_vars

\* the records GET /pending and GET /sent return for the current directories
ListedRecords ==
    {p.data : p \in listPayments(payment_req).payments
                      \cup listPayments(payment_sent).payments}

\* C40: the webhookSecret of a request is used as the HMAC key only: it is not
\* a member of any body posted to the receiver, of any failure record, or of
\* any record the pending and sent listings return
C40_SecretIsOnlyTheHmacKey ==
    \A r \in Reqs : (Saved(r) /\ truthy(req[r].webhookSecret)) =>
        /\ \A d \in PostedData(r) : d.webhookSecret # req[r].webhookSecret
        /\ \A f \in DOMAIN webhook_failures :
              webhook_failures[f].payload.data.webhookSecret # req[r].webhookSecret
        /\ \A d \in ListedRecords : d.webhookSecret # req[r].webhookSecret

====
